---- MODULE Spec2Model ----
(***************************************************************************)
(* Backtest grid engine of data/backtest/analyze_sport.py (unit payoffs)   *)
(* and data/backtest/analyze_sport_v2.py (notional payoffs).               *)
(*                                                                         *)
(* Prices and thresholds are held in cents (0.85 is 85), amounts of money  *)
(* in cents as exact rationals <<numerator, denominator>>; win rates in    *)
(* tenths of a percent.  Python floats are modelled by exact arithmetic.   *)
(***************************************************************************)
EXTENDS Integers, Sequences, FiniteSets, TLC

VARIABLES
    script,        \* which analyzer runs: "analyze_sport" or "analyze_sport_v2"
    pc,            \* position of the script
    markets,       \* records loaded from timeseries_all.jsonl
    mi,            \* preprocess loop: index of the market being processed
    si,            \* preprocess loop: index of the side being processed
    prices,        \* local `prices` of the last preprocess iteration
    suffix_min,    \* local `suffix_min` of the last preprocess iteration
    i,             \* local `i` of the backward pass, when it is stepped
    preprocessed,  \* list of (side, entry_map)
    cursor,        \* results sweep: number of grid cells already written
    results,       \* dict (entry, sl) -> cell, held as results[entry][sl]
    summary,       \* rows printed by the best-SL summary
    out,           \* the report sections printed after the summary
    program,         \* which network script runs, "none" while an analyzer runs
    runs,            \* how many times a downloader was started
    meta_file,       \* metadata_all.jsonl: the lines lines 18-22 let through
    progress_file,   \* download_progress.json on disk
    out_file,        \* timeseries_all.jsonl on disk: the records flushed
    out_buf,         \* records written to `out` and still in its buffer
    done_slugs,      \* the set done_slugs
    loaded_done,     \* done_slugs as it was loaded when the run started
    out_start,       \* length of timeseries_all.jsonl when the run started
    dl_markets,      \* the list `markets` of the downloader
    dl_pc,           \* position of the downloader
    dl_i,            \* download_cwbb: `i` of the download loop
    oidx,            \* download_cwbb: `oidx` of the download loop
    histories,       \* download_cwbb: `histories` of the download loop
    batch_start,     \* download_cwbb_fast: `batch_start` of main
    tasks,           \* download_cwbb_fast: the process_market tasks of the gather
    semaphore,       \* download_cwbb_fast: value of the semaphore
    waiters,         \* download_cwbb_fast: tasks blocked on the semaphore, FIFO
    ri,              \* download_cwbb_fast: index of `for r in results`
    served,          \* the requests of this run: (slug, oidx) -> what came back
    dota_file,       \* dota2_gold_timeseries.jsonl on disk
    match_ids,       \* scrape_opendota_v2: the list match_ids after step 1
    existing_ids,    \* scrape_opendota_v2: match ids loaded from the file
    to_fetch,        \* scrape_opendota_v2: the list to_fetch
    dota_pc,         \* position of scrape_opendota_v2
    dota_i,          \* scrape_opendota_v2: `i` of the detail loop
    attempt,         \* scrape_opendota_v2: `attempt` of the retry loop
    processed,       \* scrape_opendota_v2: processed
    errors,          \* scrape_opendota_v2: errors
    skipped_no_gold, \* scrape_opendota_v2: skipped_no_gold
    attempts_log     \* for each match of to_fetch, the results of its requests

\* the state of the analyzers
analyzerVars == <<script, pc, markets, mi, si, prices, suffix_min, i, preprocessed,
                  cursor, results, summary, out>>

\* the state of download_cwbb and download_cwbb_fast
downloadVars == <<runs, meta_file, progress_file, out_file, out_buf, done_slugs,
                  loaded_done, out_start, dl_markets, dl_pc, dl_i, oidx, histories,
                  batch_start, tasks, semaphore, waiters, ri, served>>

\* the state of scrape_opendota_v2
dotaVars == <<dota_file, match_ids, existing_ids, to_fetch, dota_pc, dota_i, attempt,
              processed, errors, skipped_no_gold, attempts_log>>

\* the state of the network scripts
netVars == <<program, downloadVars, dotaVars>>

vars == <<analyzerVars, netVars>>

\* no downloader has run
DownloadIdle ==
    /\ runs = 0
    /\ meta_file = <<>>
    /\ progress_file = [state |-> "absent", done |-> {}]
    /\ out_file = <<>>
    /\ out_buf = <<>>
    /\ done_slugs = {}
    /\ loaded_done = {}
    /\ out_start = 0
    /\ dl_markets = <<>>
    /\ dl_pc = "off"
    /\ dl_i = 0
    /\ oidx = 0
    /\ histories = <<>>
    /\ batch_start = 0
    /\ tasks = <<>>
    /\ semaphore = 0
    /\ waiters = <<>>
    /\ ri = 0
    /\ served = <<>>

\* the scraper has not run
DotaIdle ==
    /\ dota_file = <<>>
    /\ match_ids = <<>>
    /\ existing_ids = {}
    /\ to_fetch = <<>>
    /\ dota_pc = "off"
    /\ dota_i = 0
    /\ attempt = 0
    /\ processed = 0
    /\ errors = 0
    /\ skipped_no_gold = 0
    /\ attempts_log = <<>>

\* an analyzer runs: no network script does
NetIdle == program = "none" /\ DownloadIdle /\ DotaIdle

----------------------------------------------------------------------------
(* Bounds of the input file *)

\* markets in the file, and price samples in the file
MaxMarkets == 1

MaxSamples == 4

\* prices of the samples of a loaded file
Prices == {45, 85}

\* a single price path preprocessed step by step: its length and its prices
MaxPathLen == 4

PathPrices == {0, 45, 85, 92}

----------------------------------------------------------------------------
(* Exact rational arithmetic standing for Python floats *)

Abs(x) == IF x < 0 THEN -x ELSE x

RECURSIVE GCD(_, _)
GCD(a, b) == IF b = 0 THEN a ELSE GCD(b, a % b)

Rat(n, d) ==
    LET g == GCD(Abs(n), d) IN <<n \div g, d \div g>>

RInt(x) == <<x, 1>>

RAdd(a, b) == Rat(a[1] * b[2] + b[1] * a[2], a[2] * b[2])

RSub(a, b) == Rat(a[1] * b[2] - b[1] * a[2], a[2] * b[2])

RMul(a, b) == Rat(a[1] * b[1], a[2] * b[2])

RDivInt(a, k) == Rat(a[1], a[2] * k)

RLess(a, b) == a[1] * b[2] < b[1] * a[2]

\* Python round(): to the nearest integer unit, ties to the even one
RoundHalfEven(r) ==
    LET q   == r[1] \div r[2]
        rem == r[1] - q * r[2]
    IN  IF 2 * rem < r[2] THEN q
        ELSE IF 2 * rem > r[2] THEN q + 1
        ELSE IF q % 2 = 0 THEN q ELSE q + 1

Max2(a, b) == IF a >= b THEN a ELSE b

Min2(a, b) == IF a <= b THEN a ELSE b

----------------------------------------------------------------------------
(* Program constants *)

NOTIONAL == 10

NumEntries == 15

NumSLs == 51

FirstEntry == 80

FirstSL == 70

\* entries = [round(0.80 + i*0.01, 2) for i in range(15)]
entries == [k \in 1..NumEntries |-> FirstEntry + (k - 1)]

\* sls = [round(0.70 - i*0.01, 2) for i in range(51)]
sls == [k \in 1..NumSLs |-> FirstSL - (k - 1)]

\* the thresholds as sets: the keys of entry_map and of results
EntrySet == FirstEntry..(FirstEntry + NumEntries - 1)

SLSet == (FirstSL - (NumSLs - 1))..FirstSL

Sides == <<"winner", "loser">>

Scripts == {"analyze_sport", "analyze_sport_v2"}

None == <<>>

Some(x) == <<x>>

----------------------------------------------------------------------------
(* Input records *)

\* a history point: {"p": price, ...} or a point without the 'p' field
Points == {[p |-> x] : x \in Prices}

Histories == UNION {[1..n -> Points] : n \in 0..MaxSamples}

HistoryKey(side) == IF side = "winner" THEN "winner_history" ELSE "loser_history"

HistoryKeys == {"winner_history", "loser_history"}

\* a market record holds any subset of the two history keys
MarketRecords == UNION {[K -> Histories] : K \in SUBSET HistoryKeys}

\* m.get(f'{side}_history', [])
GetHistory(m, side) ==
    IF HistoryKey(side) \in DOMAIN m THEN m[HistoryKey(side)] ELSE <<>>

\* pt.get('p', 0)
GetP(pt) == IF "p" \in DOMAIN pt THEN pt.p ELSE 0

RECURSIVE SamplesOf(_)
SamplesOf(ms) ==
    IF ms = <<>> THEN 0
    ELSE Len(GetHistory(Head(ms), "winner")) + Len(GetHistory(Head(ms), "loser"))
         + SamplesOf(Tail(ms))

----------------------------------------------------------------------------
(* Preprocessing of one market side *)

\* prices = [pt.get('p', 0) for pt in history]
PricesOf(history) == [k \in 1..Len(history) |-> GetP(history[k])]

\* suffix_min = [0.0] * n; suffix_min[-1] = prices[-1]
SuffixMinStart(ps) ==
    LET n    == Len(ps)
        zero == [k \in 1..n |-> 0]
    IN  [zero EXCEPT ![n] = ps[n]]

\* variant: the minimum of two neighbouring prices, not of the running suffix
SuffixMinStep_Adjacent(ps, sm, k) == [sm EXCEPT ![k] = Min2(ps[k], ps[k + 1])]

\* suffix_min[i] = min(prices[i], suffix_min[i+1])
SuffixMinStep(ps, sm, k) == [sm EXCEPT ![k] = Min2(ps[k], sm[k + 1])]

\* for i in range(n-2, -1, -1): ...
RECURSIVE SuffixMinLoop(_, _, _)
SuffixMinLoop(ps, sm, k) ==
    IF k < 1 THEN sm
    ELSE SuffixMinLoop(ps, SuffixMinStep(ps, sm, k), k - 1)

\* the suffix minimums of a non-empty price list
SuffixMin(ps) == SuffixMinLoop(ps, SuffixMinStart(ps), Len(ps) - 1)

\* first index i with prices[i] >= entry, 0 when there is none (the code's -1)
RECURSIVE EntryIdxFrom(_, _, _)
EntryIdxFrom(ps, entry, k) ==
    IF k > Len(ps) THEN 0
    ELSE IF ps[k] >= entry THEN k
    ELSE EntryIdxFrom(ps, entry, k + 1)

\* variant: the scan does not break, the last index with prices[i] >= entry
EntryIdx_Last(ps, entry) ==
    LET S == {k \in 1..Len(ps) : ps[k] >= entry} IN
    IF S = {} THEN 0 ELSE CHOOSE k \in S : \A h \in S : h <= k

EntryIdx(ps, entry) == EntryIdxFrom(ps, entry, 1)

\* variant: suffix_min[0], the minimum of the whole path, for an entered path
EntryMap_WholeMin(ps, sm) ==
    [e \in EntrySet |->
        LET idx == EntryIdx(ps, e) IN
        IF idx = 0 THEN None ELSE Some(sm[1])]

\* variant: no None for a path never entered, suffix_min[-1] is stored
EntryMap_LastOnMiss(ps, sm) ==
    [e \in EntrySet |->
        LET idx == EntryIdx(ps, e) IN
        IF idx = 0 THEN Some(sm[Len(sm)]) ELSE Some(sm[idx])]

\* entry_map[entry] = None if never entered else suffix_min[entry_idx]
EntryMap(ps, sm) ==
    [e \in EntrySet |->
        LET idx == EntryIdx(ps, e) IN
        IF idx = 0 THEN None ELSE Some(sm[idx])]

\* variant: no side is skipped
SkipSide_Never(history) == FALSE

\* `if not history: continue`
SkipSide(history) == Len(history) = 0

----------------------------------------------------------------------------
(* Results sweep: one grid cell *)

\* cells in the order the double loop writes them (entry-major)
CellAt(k) == <<entries[((k - 1) \div NumSLs) + 1], sls[((k - 1) % NumSLs) + 1]>>

NumCells == NumEntries * NumSLs

\* wins = 0; losses = 0; fp_sl = 0; true_sl = 0; profit = 0.0
ZeroAcc == [wins |-> 0, losses |-> 0, fp_sl |-> 0, true_sl |-> 0, profit |-> RInt(0)]

\* variant: every trade counts as stopped
HitSL_Always(min_after, sl) == TRUE

\* variant: a minimum equal to the stop-loss does not trigger it
HitSL_Strict(min_after, sl) == min_after < sl

\* variant: the comparison reversed
HitSL_Reversed(min_after, sl) == min_after >= sl

\* hit_sl = min_after <= sl
HitSL(min_after, sl) == min_after <= sl

\* variant: the two winner branches exchanged
UnitTrade_SwapWinner(acc, pp, entry, sl) ==
    LET info == pp.entry_map[entry] IN
    IF info = None THEN acc
    ELSE LET hit_sl == HitSL(info[1], sl) IN
         IF pp.side = "winner"
         THEN IF hit_sl
              THEN [acc EXCEPT !.wins = @ + 1,
                               !.profit = RAdd(@, RInt(100 - entry))]
              ELSE [acc EXCEPT !.fp_sl = @ + 1,
                               !.profit = RSub(@, RInt(entry - sl))]
         ELSE IF hit_sl
              THEN [acc EXCEPT !.true_sl = @ + 1,
                               !.profit = RSub(@, RInt(entry - sl))]
              ELSE [acc EXCEPT !.losses = @ + 1,
                               !.profit = RSub(@, RInt(entry))]

\* variant: a stopped loser pays the whole entry price
UnitTrade_FullLossOnStop(acc, pp, entry, sl) ==
    LET info == pp.entry_map[entry] IN
    IF info = None THEN acc
    ELSE LET hit_sl == HitSL(info[1], sl) IN
         IF pp.side = "winner"
         THEN IF hit_sl
              THEN [acc EXCEPT !.fp_sl = @ + 1,
                               !.profit = RSub(@, RInt(entry - sl))]
              ELSE [acc EXCEPT !.wins = @ + 1,
                               !.profit = RAdd(@, RInt(100 - entry))]
         ELSE IF hit_sl
              THEN [acc EXCEPT !.true_sl = @ + 1,
                               !.profit = RSub(@, RInt(entry))]
              ELSE [acc EXCEPT !.losses = @ + 1,
                               !.profit = RSub(@, RInt(entry))]

\* variant: a stopped winner adds entry - sl, the sign of the stop lost
UnitTrade_StopGain(acc, pp, entry, sl) ==
    LET info == pp.entry_map[entry] IN
    IF info = None THEN acc
    ELSE LET hit_sl == HitSL(info[1], sl) IN
         IF pp.side = "winner"
         THEN IF hit_sl
              THEN [acc EXCEPT !.fp_sl = @ + 1,
                               !.profit = RAdd(@, RInt(entry - sl))]
              ELSE [acc EXCEPT !.wins = @ + 1,
                               !.profit = RAdd(@, RInt(100 - entry))]
         ELSE IF hit_sl
              THEN [acc EXCEPT !.true_sl = @ + 1,
                               !.profit = RSub(@, RInt(entry - sl))]
              ELSE [acc EXCEPT !.losses = @ + 1,
                               !.profit = RSub(@, RInt(entry))]

\* variant: a stopped loser is not counted, `continue` in its branch
UnitTrade_SkipTrueStop(acc, pp, entry, sl) ==
    LET info == pp.entry_map[entry] IN
    IF info = None THEN acc
    ELSE LET hit_sl == HitSL(info[1], sl) IN
         IF pp.side = "winner"
         THEN IF hit_sl
              THEN [acc EXCEPT !.fp_sl = @ + 1,
                               !.profit = RSub(@, RInt(entry - sl))]
              ELSE [acc EXCEPT !.wins = @ + 1,
                               !.profit = RAdd(@, RInt(100 - entry))]
         ELSE IF hit_sl
              THEN acc
              ELSE [acc EXCEPT !.losses = @ + 1,
                               !.profit = RSub(@, RInt(entry))]

\* variant: `if not info: continue`, a minimum of 0 taken for never entered
UnitTrade_FalsyInfo(acc, pp, entry, sl) ==
    LET info == pp.entry_map[entry] IN
    IF info = None \/ info = Some(0) THEN acc
    ELSE LET hit_sl == HitSL(info[1], sl) IN
         IF pp.side = "winner"
         THEN IF hit_sl
              THEN [acc EXCEPT !.fp_sl = @ + 1,
                               !.profit = RSub(@, RInt(entry - sl))]
              ELSE [acc EXCEPT !.wins = @ + 1,
                               !.profit = RAdd(@, RInt(100 - entry))]
         ELSE IF hit_sl
              THEN [acc EXCEPT !.true_sl = @ + 1,
                               !.profit = RSub(@, RInt(entry - sl))]
              ELSE [acc EXCEPT !.losses = @ + 1,
                               !.profit = RSub(@, RInt(entry))]

\* analyze_sport: body of `for side, entry_map in preprocessed`
UnitTrade(acc, pp, entry, sl) ==
    LET info == pp.entry_map[entry] IN
    IF info = None THEN acc
    ELSE LET hit_sl == HitSL(info[1], sl) IN
         IF pp.side = "winner"
         THEN IF hit_sl
              THEN [acc EXCEPT !.fp_sl = @ + 1,
                               !.profit = RSub(@, RInt(entry - sl))]
              ELSE [acc EXCEPT !.wins = @ + 1,
                               !.profit = RAdd(@, RInt(100 - entry))]
         ELSE IF hit_sl
              THEN [acc EXCEPT !.true_sl = @ + 1,
                               !.profit = RSub(@, RInt(entry - sl))]
              ELSE [acc EXCEPT !.losses = @ + 1,
                               !.profit = RSub(@, RInt(entry))]

\* variant: NOTIONAL shares, whatever the entry price
SharesPerTrade_Flat(entry) == RInt(NOTIONAL)

\* shares_per_trade = NOTIONAL / entry
SharesPerTrade(entry) == Rat(NOTIONAL * 100, entry)

\* variant: analyze_sport_v2 stops a trade only below the stop-loss
NotionalTrade_StrictStop(acc, pp, entry, sl) ==
    LET info   == pp.entry_map[entry]
        shares == SharesPerTrade(entry)
        stake  == RInt(NOTIONAL * 100)
    IN
    IF info = None THEN acc
    ELSE LET hit_sl == info[1] < sl IN
         IF pp.side = "winner"
         THEN IF hit_sl
              THEN [acc EXCEPT !.fp_sl = @ + 1,
                               !.profit = RAdd(@, RSub(RMul(shares, RInt(sl)), stake))]
              ELSE [acc EXCEPT !.wins = @ + 1,
                               !.profit = RAdd(@, RSub(RMul(shares, RInt(100)), stake))]
         ELSE IF hit_sl
              THEN [acc EXCEPT !.true_sl = @ + 1,
                               !.profit = RAdd(@, RSub(RMul(shares, RInt(sl)), stake))]
              ELSE [acc EXCEPT !.losses = @ + 1,
                               !.profit = RAdd(@, RSub(RMul(shares, RInt(0)), stake))]

\* analyze_sport_v2: body of `for side, entry_map in preprocessed`
NotionalTrade(acc, pp, entry, sl) ==
    LET info   == pp.entry_map[entry]
        shares == SharesPerTrade(entry)
        stake  == RInt(NOTIONAL * 100)
    IN
    IF info = None THEN acc
    ELSE LET hit_sl == HitSL(info[1], sl) IN
         IF pp.side = "winner"
         THEN IF hit_sl
              THEN [acc EXCEPT !.fp_sl = @ + 1,
                               !.profit = RAdd(@, RSub(RMul(shares, RInt(sl)), stake))]
              ELSE [acc EXCEPT !.wins = @ + 1,
                               !.profit = RAdd(@, RSub(RMul(shares, RInt(100)), stake))]
         ELSE IF hit_sl
              THEN [acc EXCEPT !.true_sl = @ + 1,
                               !.profit = RAdd(@, RSub(RMul(shares, RInt(sl)), stake))]
              ELSE [acc EXCEPT !.losses = @ + 1,
                               !.profit = RAdd(@, RSub(RMul(shares, RInt(0)), stake))]

RECURSIVE UnitFold(_, _, _, _, _)
UnitFold(pre, k, acc, entry, sl) ==
    IF k > Len(pre) THEN acc
    ELSE UnitFold(pre, k + 1, UnitTrade(acc, pre[k], entry, sl), entry, sl)

RECURSIVE NotionalFold(_, _, _, _, _)
NotionalFold(pre, k, acc, entry, sl) ==
    IF k > Len(pre) THEN acc
    ELSE NotionalFold(pre, k + 1, NotionalTrade(acc, pre[k], entry, sl), entry, sl)

\* variant: resolution losses left out of the denominator
WinRate_DropLosses(wins, fp_sl, losses) ==
    RoundHalfEven(Rat(wins * 1000, Max2(1, wins + fp_sl)))

\* round(wins / max(1, wins + fp_sl + losses) * 100, 1), in tenths of a percent
WinRate(wins, fp_sl, losses) ==
    RoundHalfEven(Rat(wins * 1000, Max2(1, wins + fp_sl + losses)))

\* variant: true stops left out of total_trades
UnitCell_DropTrueSL(pre, entry, sl) ==
    LET a == UnitFold(pre, 1, ZeroAcc, entry, sl) IN
    [wins |-> a.wins, losses |-> a.losses, fp_sl |-> a.fp_sl, true_sl |-> a.true_sl,
     net |-> RoundHalfEven(a.profit),
     total_trades |-> a.wins + a.losses + a.fp_sl,
     win_rate |-> WinRate(a.wins, a.fp_sl, a.losses),
     profit |-> a.profit]

\* analyze_sport: results[(entry, sl)] = {...}
UnitCell(pre, entry, sl) ==
    LET a == UnitFold(pre, 1, ZeroAcc, entry, sl) IN
    [wins |-> a.wins, losses |-> a.losses, fp_sl |-> a.fp_sl, true_sl |-> a.true_sl,
     net |-> RoundHalfEven(a.profit),
     total_trades |-> a.wins + a.losses + a.fp_sl + a.true_sl,
     win_rate |-> WinRate(a.wins, a.fp_sl, a.losses),
     profit |-> a.profit]

\* variant: the profit per trade divided by the number of wins
NotionalCell_PerWin(pre, entry, sl) ==
    LET a            == NotionalFold(pre, 1, ZeroAcc, entry, sl)
        total_trades == a.wins + a.losses + a.fp_sl + a.true_sl
    IN
    [wins |-> a.wins, losses |-> a.losses, fp_sl |-> a.fp_sl, true_sl |-> a.true_sl,
     net_total |-> RoundHalfEven(a.profit),
     net_per_trade |-> RoundHalfEven(RDivInt(a.profit, Max2(1, a.wins))),
     total_trades |-> total_trades,
     win_rate |-> WinRate(a.wins, a.fp_sl, a.losses),
     profit |-> a.profit]

\* analyze_sport_v2: results[(entry, sl)] = {...}
NotionalCell(pre, entry, sl) ==
    LET a            == NotionalFold(pre, 1, ZeroAcc, entry, sl)
        total_trades == a.wins + a.losses + a.fp_sl + a.true_sl
    IN
    [wins |-> a.wins, losses |-> a.losses, fp_sl |-> a.fp_sl, true_sl |-> a.true_sl,
     net_total |-> RoundHalfEven(a.profit),
     net_per_trade |-> RoundHalfEven(RDivInt(a.profit, Max2(1, total_trades))),
     total_trades |-> total_trades,
     win_rate |-> WinRate(a.wins, a.fp_sl, a.losses),
     profit |-> a.profit]

\* variant: the loop over the paths ends at the first path never entered,
\* `break` in the place of `continue`
Cell_BreakAtNone(scr, pre, entry, sl) ==
    LET stop == {k \in 1..Len(pre) : pre[k].entry_map[entry] = None}
        upto == IF stop = {} THEN Len(pre)
                ELSE (CHOOSE k \in stop : \A h \in stop : k <= h) - 1
        cut  == SubSeq(pre, 1, upto)
    IN  IF scr = "analyze_sport" THEN UnitCell(cut, entry, sl)
        ELSE NotionalCell(cut, entry, sl)

\* the body of `for sl in sls`, of the script that runs
Cell(scr, pre, entry, sl) ==
    IF scr = "analyze_sport" THEN UnitCell(pre, entry, sl)
    ELSE NotionalCell(pre, entry, sl)

----------------------------------------------------------------------------
(* Best stop-loss summary *)

\* the key of the argmax: r['net'] in analyze_sport, r['net_total'] in v2
NetKey(scr, r) == IF scr = "analyze_sport" THEN r.net ELSE r.net_total

\* variant: the last maximal element
RECURSIVE BestSLFrom_LastMax(_, _, _, _, _)
BestSLFrom_LastMax(scr, res, entry, j, best) ==
    IF j > NumSLs THEN best
    ELSE IF NetKey(scr, res[entry][sls[j]]) >= NetKey(scr, res[entry][best])
         THEN BestSLFrom_LastMax(scr, res, entry, j + 1, sls[j])
         ELSE BestSLFrom_LastMax(scr, res, entry, j + 1, best)

\* max(sls, key=lambda s: results[(entry, s)][...]): the first maximal element
RECURSIVE BestSLFrom(_, _, _, _, _)
BestSLFrom(scr, res, entry, j, best) ==
    IF j > NumSLs THEN best
    ELSE IF NetKey(scr, res[entry][sls[j]]) > NetKey(scr, res[entry][best])
         THEN BestSLFrom(scr, res, entry, j + 1, sls[j])
         ELSE BestSLFrom(scr, res, entry, j + 1, best)

BestSL_LastMax(scr, res, entry) == BestSLFrom_LastMax(scr, res, entry, 2, sls[1])

BestSL(scr, res, entry) == BestSLFrom(scr, res, entry, 2, sls[1])

\* variant: a row is left out when its best cell has no win
SkipRow_NoWins(r) == r.wins = 0

\* `if r['total_trades'] == 0: continue`
SkipRow(r) == r.total_trades = 0

\* `for entry in entries`: the rows printed, one for each entry with trades
RECURSIVE SummaryRows(_, _, _, _)
SummaryRows(scr, res, k, rows) ==
    IF k > NumEntries THEN rows
    ELSE LET entry   == entries[k]
             best_sl == BestSL(scr, res, entry)
             r       == res[entry][best_sl]
         IN  IF SkipRow(r)
             THEN SummaryRows(scr, res, k + 1, rows)
             ELSE SummaryRows(scr, res, k + 1,
                      Append(rows, [entry |-> entry, best_sl |-> best_sl, r |-> r]))

----------------------------------------------------------------------------
(* Report sections printed after the summary *)

\* nothing printed after the summary yet
NoOutput ==
    [net_grid |-> <<>>, per_trade_grid |-> <<>>, fp_grid |-> <<>>,
     loss_lines |-> <<>>, zero_losses |-> FALSE, tp_lines |-> <<>>]

\* variant: the third chunk starts one cent too high, 0.41-0.27
sl_chunks_Overlap ==
    << [k \in 1..15 |-> 70 - (k - 1)],
       [k \in 1..15 |-> 55 - (k - 1)],
       [k \in 1..15 |-> 41 - (k - 1)],
       [k \in 1..6 |-> 25 - (k - 1)] >>

\* sl_chunks: 0.70-0.56, 0.55-0.41, 0.40-0.26, 0.25-0.20
sl_chunks ==
    << [k \in 1..15 |-> 70 - (k - 1)],
       [k \in 1..15 |-> 55 - (k - 1)],
       [k \in 1..15 |-> 40 - (k - 1)],
       [k \in 1..6 |-> 25 - (k - 1)] >>

\* key_sls = [round(0.50 - i*0.01, 2) for i in range(21)]
key_sls == [k \in 1..21 |-> 50 - (k - 1)]

\* the cents values n in 1..405 ending in 5 whose double n/100 lies above n/100
HalfCentAbove ==
    {5, 45, 55, 65, 75, 105, 135, 155, 175, 185, 235, 245, 275, 285, 295,
     335, 345, 375, 385, 395}

\* f"{x:.1f}" of a value of n cents, in tenths of a dollar: the double nearest
\* to n/100 is rounded, so a decimal tie goes the way the double lies
FormatF1(n) ==
    LET q == n \div 10
        d == n % 10
    IN  IF d < 5 THEN q
        ELSE IF d > 5 THEN q + 1
        ELSE IF n > 0 THEN (IF n \in HalfCentAbove THEN q + 1 ELSE q)
        ELSE (IF (-n) \in HalfCentAbove THEN q ELSE q + 1)

\* f"{x:.0f}" of a value of n cents, in dollars: k + 0.5 is a double, ties to even
FormatF0(n) == RoundHalfEven(Rat(n, 100))

\* the number a net profit grid shows for a cell: r['net'] with .1f in
\* analyze_sport, r['net_total'] with .0f in analyze_sport_v2
NetGridValue(scr, r) ==
    IF scr = "analyze_sport" THEN FormatF1(r.net) ELSE FormatF0(r.net_total)

\* one grid section: for each chunk, a row for each entry, a column for each sl
GridOf(scr, section, res, chunks) ==
    [ci \in 1..Len(chunks) |->
        [k \in 1..NumEntries |->
            [j \in 1..Len(chunks[ci]) |->
                LET r == res[entries[k]][chunks[ci][j]] IN
                IF section = "net" THEN NetGridValue(scr, r)
                ELSE IF section = "per_trade" THEN r.net_per_trade
                ELSE r.fp_sl]]]

\* variant: any cell with a stopped loser is listed
HasLosses_TrueSL(r) == r.true_sl > 0

\* `if results[(entry, sl)]['losses'] > 0`
HasLosses(r) == r.losses > 0

\* the lines of one entry, in the order of sls
LossLinesOfEntry(res, entry) ==
    LET listed == SelectSeq(sls, LAMBDA sl : HasLosses(res[entry][sl])) IN
    [j \in 1..Len(listed) |->
        [entry |-> entry, sl |-> listed[j], losses |-> res[entry][listed[j]].losses]]

\* `for entry in entries: for sl in sls`: the lines printed
RECURSIVE LossLines(_, _, _)
LossLines(res, k, lines) ==
    IF k > NumEntries THEN lines
    ELSE LossLines(res, k + 1, lines \o LossLinesOfEntry(res, entries[k]))

\* reach = {0.95: 0, 0.97: 0, 0.99: 0, 0.995: 0}, the keys in tenths of a cent
TPs == <<950, 970, 990, 995>>

\* variant: only the first sample of the history is tested
Entered_First(history, entry) ==
    Len(history) > 0 /\ GetP(history[1]) >= entry

\* variant: a winner history is counted whenever it is not empty
Entered_NonEmpty(history, entry) == Len(history) > 0

\* any(pt.get('p', 0) >= entry for pt in history)
Entered(history, entry) == \E k \in 1..Len(history) : GetP(history[k]) >= entry

\* max((pt.get('p', 0) for pt in history), default=0)
MaxP(history) ==
    IF Len(history) = 0 THEN 0
    ELSE CHOOSE x \in {GetP(history[k]) : k \in 1..Len(history)} :
            \A k \in 1..Len(history) : x >= GetP(history[k])

\* the entries of the TP section: all of them in analyze_sport, those with
\* 0.83 <= e <= 0.93 in analyze_sport_v2
TPEntries(scr) ==
    IF scr = "analyze_sport" THEN entries
    ELSE SelectSeq(entries, LAMBDA e : 83 <= e /\ e <= 93)

\* f"{reach[tp]/total_w*100:.1f}%" in tenths of a percent (analyze_sport),
\* f"{reach[tp]/total_w*100:.0f}%" in percent (analyze_sport_v2)
ReachPct(scr, reach, total_w) ==
    IF scr = "analyze_sport" THEN RoundHalfEven(Rat(reach * 1000, total_w))
    ELSE RoundHalfEven(Rat(reach * 100, total_w))

\* the body of `for entry in ...` up to `if total_w:`
TPCount(ms, entry) ==
    LET W == {k \in 1..Len(ms) : Entered(GetHistory(ms[k], "winner"), entry)} IN
    [total_w |-> Cardinality(W),
     reach |-> [j \in 1..Len(TPs) |->
                   Cardinality({k \in W :
                       MaxP(GetHistory(ms[k], "winner")) * 10 >= TPs[j]})]]

\* the lines of the TP section: one for each entry with total_w nonzero
RECURSIVE TPLines(_, _, _, _)
TPLines(scr, ms, k, lines) ==
    IF k > Len(TPEntries(scr)) THEN lines
    ELSE LET entry == TPEntries(scr)[k]
             c     == TPCount(ms, entry)
         IN  IF c.total_w # 0
             THEN TPLines(scr, ms, k + 1,
                      Append(lines,
                          [entry |-> entry, total_w |-> c.total_w, reach |-> c.reach,
                           pcts |-> [j \in 1..Len(TPs) |->
                                        ReachPct(scr, c.reach[j], c.total_w)]]))
             ELSE TPLines(scr, ms, k + 1, lines)

----------------------------------------------------------------------------
(* The script as a state machine: a whole run on a loaded file *)

Init ==
    /\ script \in Scripts
    /\ pc = "load"
    /\ markets = <<>>
    /\ mi = 1
    /\ si = 1
    /\ prices = <<>>
    /\ suffix_min = <<>>
    /\ i = 0
    /\ preprocessed = <<>>
    /\ cursor = 0
    /\ results = <<>>
    /\ summary = <<>>
    /\ out = NoOutput
    /\ NetIdle

\* for line in f: markets.append(json.loads(line))
LoadMarket ==
    /\ pc = "load"
    /\ UNCHANGED netVars
    /\ Len(markets) < MaxMarkets
    /\ \E m \in MarketRecords :
          /\ SamplesOf(Append(markets, m)) <= MaxSamples
          /\ markets' = Append(markets, m)
    /\ UNCHANGED <<script, pc, mi, si, prices, suffix_min, i, preprocessed,
                   cursor, results, summary, out>>

\* end of file: the preprocess loops start
EndLoad ==
    /\ pc = "load"
    /\ UNCHANGED netVars
    /\ pc' = IF markets = <<>> THEN "sweep" ELSE "preprocess"
    /\ UNCHANGED <<script, markets, mi, si, prices, suffix_min, i, preprocessed,
                   cursor, results, summary, out>>

\* one iteration of `for m in markets: for side in ['winner', 'loser']`
PreprocessSide ==
    /\ pc = "preprocess"
    /\ UNCHANGED netVars
    /\ LET m       == markets[mi]
           side    == Sides[si]
           history == GetHistory(m, side)
           last    == mi = Len(markets) /\ si = Len(Sides)
           ps      == PricesOf(history)
           sm      == SuffixMin(ps)
       IN
       /\ IF SkipSide(history)
          THEN /\ UNCHANGED <<prices, suffix_min, preprocessed>>
               /\ pc' = IF last THEN "sweep" ELSE "preprocess"
          ELSE IF Len(ps) = 0
          THEN \* suffix_min[-1] = prices[-1] raises IndexError
               /\ UNCHANGED <<prices, suffix_min, preprocessed>>
               /\ pc' = "error"
          ELSE /\ prices' = ps
               /\ suffix_min' = sm
               /\ preprocessed' =
                     Append(preprocessed, [side |-> side, entry_map |-> EntryMap(ps, sm)])
               /\ pc' = IF last THEN "sweep" ELSE "preprocess"
       /\ IF si < Len(Sides)
          THEN si' = si + 1 /\ mi' = mi
          ELSE si' = 1 /\ mi' = mi + 1
    /\ UNCHANGED <<script, markets, i, cursor, results, summary, out>>

\* results[(entry, sl)] = cell
PutCell(res, entry, sl, cell) ==
    [e \in (DOMAIN res) \cup {entry} |->
        IF e = entry
        THEN LET old == IF e \in DOMAIN res THEN res[e] ELSE <<>> IN
             [s \in (DOMAIN old) \cup {sl} |-> IF s = sl THEN cell ELSE old[s]]
        ELSE res[e]]

\* the whole double loop `for entry in entries: for sl in sls`
Sweep ==
    /\ pc = "sweep"
    /\ UNCHANGED netVars
    /\ results' = [entry \in EntrySet |->
                       [sl \in SLSet |-> Cell(script, preprocessed, entry, sl)]]
    /\ cursor' = NumCells
    /\ pc' = "summary"
    /\ UNCHANGED <<script, markets, mi, si, prices, suffix_min, i, preprocessed, summary, out>>

\* the summary loop `for entry in entries`
Summary ==
    /\ pc = "summary"
    /\ UNCHANGED netVars
    /\ summary' = SummaryRows(script, results, 1, <<>>)
    /\ pc' = "report"
    /\ UNCHANGED <<script, markets, mi, si, prices, suffix_min, i, preprocessed,
                   cursor, results, out>>

\* the net profit grid, chunk by chunk
NetGrid ==
    /\ pc = "report"
    /\ UNCHANGED netVars
    /\ out' = [out EXCEPT !.net_grid =
                  GridOf(script, "net", results, sl_chunks)]
    /\ pc' = IF script = "analyze_sport" THEN "fp_grid" ELSE "per_trade_grid"
    /\ UNCHANGED <<script, markets, mi, si, prices, suffix_min, i, preprocessed,
                   cursor, results, summary>>

\* analyze_sport_v2: the $/trade grid on key_sls
PerTradeGrid ==
    /\ pc = "per_trade_grid"
    /\ UNCHANGED netVars
    /\ out' = [out EXCEPT !.per_trade_grid =
                  GridOf(script, "per_trade", results, <<key_sls>>)]
    /\ pc' = "fp_grid"
    /\ UNCHANGED <<script, markets, mi, si, prices, suffix_min, i, preprocessed,
                   cursor, results, summary>>

\* the FP SL count grid: on sl_chunks in analyze_sport, on key_sls in v2
FPGrid ==
    /\ pc = "fp_grid"
    /\ UNCHANGED netVars
    /\ out' = [out EXCEPT !.fp_grid =
                  GridOf(script, "fp", results,
                         IF script = "analyze_sport" THEN sl_chunks ELSE <<key_sls>>)]
    /\ pc' = "losses"
    /\ UNCHANGED <<script, markets, mi, si, prices, suffix_min, i, preprocessed,
                   cursor, results, summary>>

\* the resolution losses section
ResolutionLosses ==
    /\ pc = "losses"
    /\ UNCHANGED netVars
    /\ LET lines      == LossLines(results, 1, <<>>)
           has_losses == Len(lines) > 0
       IN  out' = [out EXCEPT !.loss_lines = lines, !.zero_losses = ~has_losses]
    /\ pc' = "tp"
    /\ UNCHANGED <<script, markets, mi, si, prices, suffix_min, i, preprocessed,
                   cursor, results, summary>>

\* the TP reach section, the end of the script
TPReach ==
    /\ pc = "tp"
    /\ UNCHANGED netVars
    /\ out' = [out EXCEPT !.tp_lines = TPLines(script, markets, 1, <<>>)]
    /\ pc' = "done"
    /\ UNCHANGED <<script, markets, mi, si, prices, suffix_min, i, preprocessed,
                   cursor, results, summary>>

Next ==
    \/ LoadMarket
    \/ EndLoad
    \/ PreprocessSide
    \/ Sweep
    \/ Summary
    \/ NetGrid
    \/ PerTradeGrid
    \/ FPGrid
    \/ ResolutionLosses
    \/ TPReach

Spec == Init /\ [][Next]_vars

----------------------------------------------------------------------------
(* The same script on the two-path file, the sweep taken one cell at a time *)

HistoryOf(ps) == [k \in 1..Len(ps) |-> [p |-> ps[k]]]

ScenarioWinner == <<50, 82, 90, 60, 99>>

ScenarioLoser == <<50, 85, 40, 10>>

ScenarioMarkets ==
    << [winner_history |-> HistoryOf(ScenarioWinner)],
       [loser_history |-> HistoryOf(ScenarioLoser)] >>

InitScenario ==
    /\ script \in Scripts
    /\ pc = "preprocess"
    /\ markets = ScenarioMarkets
    /\ mi = 1
    /\ si = 1
    /\ prices = <<>>
    /\ suffix_min = <<>>
    /\ i = 0
    /\ preprocessed = <<>>
    /\ cursor = 0
    /\ results = <<>>
    /\ summary = <<>>
    /\ out = NoOutput
    /\ NetIdle

\* one iteration of the inner loop `for sl in sls`
SweepCell ==
    /\ pc = "sweep"
    /\ UNCHANGED netVars
    /\ LET c == CellAt(cursor + 1) IN
       results' = PutCell(results, c[1], c[2], Cell(script, preprocessed, c[1], c[2]))
    /\ cursor' = cursor + 1
    /\ pc' = IF cursor + 1 = NumCells THEN "summary" ELSE "sweep"
    /\ UNCHANGED <<script, markets, mi, si, prices, suffix_min, i, preprocessed, summary, out>>

NextScenario ==
    \/ PreprocessSide
    \/ SweepCell
    \/ Summary

SpecScenario == InitScenario /\ [][NextScenario]_vars

----------------------------------------------------------------------------
(* Preprocessing of one non-empty price list, the backward pass stepped *)

PathLists == UNION {[1..n -> PathPrices] : n \in 1..MaxPathLen}

InitPath ==
    /\ script \in Scripts
    /\ pc = "path"
    /\ markets = <<>>
    /\ mi = 1
    /\ si \in 1..Len(Sides)
    /\ prices \in PathLists
    /\ suffix_min = <<>>
    /\ i = 0
    /\ preprocessed = <<>>
    /\ cursor = 0
    /\ results = <<>>
    /\ summary = <<>>
    /\ out = NoOutput
    /\ NetIdle

\* suffix_min = [0.0] * n; suffix_min[-1] = prices[-1]; i = n-2
SuffixMinInit ==
    /\ pc = "path"
    /\ UNCHANGED netVars
    /\ suffix_min' = SuffixMinStart(prices)
    /\ i' = Len(prices) - 1
    /\ pc' = "suffix_loop"
    /\ UNCHANGED <<script, markets, mi, si, prices, preprocessed, cursor, results, summary, out>>

\* one iteration of `for i in range(n-2, -1, -1)`
SuffixMinIter ==
    /\ pc = "suffix_loop"
    /\ UNCHANGED netVars
    /\ i >= 1
    /\ suffix_min' = SuffixMinStep(prices, suffix_min, i)
    /\ i' = i - 1
    /\ UNCHANGED <<script, pc, markets, mi, si, prices, preprocessed, cursor,
                   results, summary, out>>

\* `for entry in entries` and preprocessed.append((side, entry_map))
BuildEntryMap ==
    /\ pc = "suffix_loop"
    /\ UNCHANGED netVars
    /\ i < 1
    /\ preprocessed' =
          Append(preprocessed,
                 [side |-> Sides[si], entry_map |-> EntryMap(prices, suffix_min)])
    /\ pc' = "path_done"
    /\ UNCHANGED <<script, markets, mi, si, prices, suffix_min, i, cursor,
                   results, summary, out>>

NextPath ==
    \/ SuffixMinInit
    \/ SuffixMinIter
    \/ BuildEntryMap

SpecPath == InitPath /\ [][NextPath]_vars

----------------------------------------------------------------------------
(* The body of the sweep applied to a table of preprocessed paths, one cell  *)
(* at a time, the cells taken in any order and the stop-loss not held below  *)
(* the entry                                                                 *)

\* paths of the table
MaxCellPaths == 2

CellPathLists == {<<92>>, <<85>>, <<85, 45>>, <<45, 92>>}

CellEntries == {80, 90}

CellSLs == {50, 85}

\* (side, entry_map) as the preprocess loop appends it
CellOutcomes ==
    {[side |-> Sides[s], entry_map |-> EntryMap(ps, SuffixMin(ps))] :
        s \in 1..Len(Sides), ps \in CellPathLists}

CellTables == UNION {[1..n -> CellOutcomes] : n \in 0..MaxCellPaths}

InitCell ==
    /\ script \in Scripts
    /\ pc = "cell"
    /\ markets = <<>>
    /\ mi = 1
    /\ si = 1
    /\ prices = <<>>
    /\ suffix_min = <<>>
    /\ i = 0
    /\ preprocessed \in CellTables
    /\ cursor = 0
    /\ results = <<>>
    /\ summary = <<>>
    /\ out = NoOutput
    /\ NetIdle

\* results[(entry, sl)] = cell, for one pair of thresholds not yet written
EvalCell ==
    /\ pc = "cell"
    /\ UNCHANGED netVars
    /\ \E entry \in CellEntries : \E sl \in CellSLs :
          /\ ~(entry \in DOMAIN results /\ sl \in DOMAIN results[entry])
          /\ results' = PutCell(results, entry, sl, Cell(script, preprocessed, entry, sl))
    /\ cursor' = cursor + 1
    /\ UNCHANGED <<script, pc, markets, mi, si, prices, suffix_min, i, preprocessed,
                   summary, out>>

NextCell == EvalCell

SpecCell == InitCell /\ [][NextCell]_vars

----------------------------------------------------------------------------
(* The TP reach section on files whose winners reach the take-profit levels *)

\* markets in the file
MaxTPMarkets == 2

TPPriceLists == {<<>>, <<45>>, <<85>>, <<45, 96>>, <<90, 98>>, <<83, 99>>, <<100, 45>>}

\* records with a winner history, with none, and with a point without 'p'
TPMarketRecords ==
    {[winner_history |-> HistoryOf(ps)] : ps \in TPPriceLists}
        \cup {[loser_history |-> HistoryOf(<<99>>)]}
        \cup {[winner_history |-> <<[t |-> 0], [p |-> 92]>>,
               loser_history |-> HistoryOf(<<100>>)]}

TPFiles == UNION {[1..n -> TPMarketRecords] : n \in 0..MaxTPMarkets}

InitTP ==
    /\ script \in Scripts
    /\ pc = "tp"
    /\ markets \in TPFiles
    /\ mi = 1
    /\ si = 1
    /\ prices = <<>>
    /\ suffix_min = <<>>
    /\ i = 0
    /\ preprocessed = <<>>
    /\ cursor = 0
    /\ results = <<>>
    /\ summary = <<>>
    /\ out = NoOutput
    /\ NetIdle

NextTP == TPReach

SpecTP == InitTP /\ [][NextTP]_vars

----------------------------------------------------------------------------
(* The whole script on files of chosen records: points without 'p', winners *)
(* and losers that reach the take-profit levels, paths never entered        *)

\* markets in the file
MaxFileMarkets == 2

FileRecords ==
    { [winner_history |-> <<[p |-> 85], [t |-> 1]>>,
       loser_history |-> <<[p |-> 90], [p |-> 0]>>],
      [winner_history |-> <<[t |-> 1], [p |-> 85], [p |-> 96]>>],
      [winner_history |-> <<[p |-> 83], [p |-> 99]>>],
      [winner_history |-> <<[p |-> 100], [p |-> 45]>>,
       loser_history |-> <<[p |-> 45]>>],
      [winner_history |-> <<>>,
       loser_history |-> <<[p |-> 92], [p |-> 98], [p |-> 30]>>],
      [winner_history |-> <<[p |-> 45], [p |-> 60]>>] }

Files == UNION {[1..n -> FileRecords] : n \in 1..MaxFileMarkets}

InitFiles ==
    /\ script \in Scripts
    /\ pc = "preprocess"
    /\ markets \in Files
    /\ mi = 1
    /\ si = 1
    /\ prices = <<>>
    /\ suffix_min = <<>>
    /\ i = 0
    /\ preprocessed = <<>>
    /\ cursor = 0
    /\ results = <<>>
    /\ summary = <<>>
    /\ out = NoOutput
    /\ NetIdle

NextFiles ==
    \/ PreprocessSide
    \/ Sweep
    \/ Summary
    \/ NetGrid
    \/ PerTradeGrid
    \/ FPGrid
    \/ ResolutionLosses
    \/ TPReach

SpecFiles == InitFiles /\ [][NextFiles]_vars

----------------------------------------------------------------------------
(* download_cwbb.py and download_cwbb_fast.py: two resumable downloads of   *)
(* price histories that share timeseries_all.jsonl and                      *)
(* download_progress.json.  A slug is a number; a run may be killed at any  *)
(* step and a later run of either script resumes from the files on disk.    *)

\* lines of metadata_all.jsonl, and runs of a downloader
MaxDlMarkets == 4

MaxRuns == 2

\* CONCURRENCY = 10 and batch_size = 50 in download_cwbb_fast, and
\* download_cwbb saves the progress every 50 markets: scaled down, a batch
\* still holding more tasks than the semaphore lets in
CONCURRENCY == 2

batch_size == 3

ProgressEvery == 2

DlPrograms == {"download_cwbb", "download_cwbb_fast"}

\* a line of metadata_all.jsonl that passes the filters of lines 18-22
MetaLine(k) == [slug |-> k, winner_idx |-> k % 2]

MetaFiles == {[k \in 1..n |-> MetaLine(k)] : n \in 0..MaxDlMarkets}

\* what a request of a price history can come back with
Responses ==
    { [status |-> "timeout", history |-> <<>>],
      [status |-> "ok", history |-> <<[p |-> 85]>>] }

\* variant: a failed fetch hands back a history
FetchedHistory_Stale(resp) ==
    IF resp.status = "ok" THEN resp.history ELSE <<[p |-> 85]>>

\* fetch_history: data.get('history', []), and `except: return []`
FetchedHistory(resp) ==
    IF resp.status = "ok" THEN resp.history ELSE <<>>

\* tag = "winner" if oidx == m['winner_idx'] else "loser"
Tag(o, winner_idx) == IF o = winner_idx THEN "winner" ELSE "loser"

\* histories[tag] = h
PutHistory(h, tag, v) ==
    [x \in (DOMAIN h) \cup {tag} |-> IF x = tag THEN v ELSE h[x]]

\* histories.get(tag, [])
HistoryGet(h, tag) == IF tag \in DOMAIN h THEN h[tag] ELSE <<>>

\* the record of a market (outcomes and volume are copied from the line)
Record(m, h) ==
    [slug |-> m.slug, winner_idx |-> m.winner_idx,
     winner_points |-> Len(HistoryGet(h, "winner")),
     loser_points |-> Len(HistoryGet(h, "loser")),
     winner_history |-> HistoryGet(h, "winner"),
     loser_history |-> HistoryGet(h, "loser")]

\* variant: flush() leaves the buffer where it is
Flushed_Nothing(file, buf) == file

\* out.flush(): what is on disk afterwards
Flushed(file, buf) == file \o buf

\* set(json.load(f).get('done', [])) of a file that exists, set() otherwise
LoadDone(pf) == IF pf.state = "ok" THEN pf.done ELSE {}

\* `if d['slug'] in done_slugs: continue`: the markets left to download
Remaining(meta, done) == SelectSeq(meta, LAMBDA d : d.slug \notin done)

\* variant: the semaphore never blocks
CanAcquire_Always(value) == TRUE

\* asyncio.Semaphore.acquire enters at once while the value is positive
CanAcquire(value) == value > 0

\* a request is sent
Issue(s, req) ==
    [r \in (DOMAIN s) \cup {req} |-> IF r = req THEN "pending" ELSE s[r]]

\* the requests that were sent and have not come back
InFlight == {r \in DOMAIN served : served[r] = "pending"}

\* no analyzer runs
AnalyzerIdle ==
    /\ script = "analyze_sport"
    /\ pc = "off"
    /\ markets = <<>>
    /\ mi = 1
    /\ si = 1
    /\ prices = <<>>
    /\ suffix_min = <<>>
    /\ i = 0
    /\ preprocessed = <<>>
    /\ cursor = 0
    /\ results = <<>>
    /\ summary = <<>>
    /\ out = NoOutput

\* before the first run: no progress file, no output file
InitDownload ==
    /\ AnalyzerIdle
    /\ DotaIdle
    /\ program = "none"
    /\ runs = 0
    /\ meta_file \in MetaFiles
    /\ progress_file = [state |-> "absent", done |-> {}]
    /\ out_file = <<>>
    /\ out_buf = <<>>
    /\ done_slugs = {}
    /\ loaded_done = {}
    /\ out_start = 0
    /\ dl_markets = <<>>
    /\ dl_pc = "off"
    /\ dl_i = 0
    /\ oidx = 0
    /\ histories = <<>>
    /\ batch_start = 0
    /\ tasks = <<>>
    /\ semaphore = 0
    /\ waiters = <<>>
    /\ ri = 0
    /\ served = <<>>

\* a run of prog starts: the progress file is loaded and the markets still
\* to download are listed; a progress file cut short makes json.load raise
Start(prog) ==
    /\ dl_pc \in {"off", "killed", "done", "crashed"}
    /\ runs < MaxRuns
    /\ runs' = runs + 1
    /\ program' = prog
    /\ out_buf' = <<>>
    /\ served' = <<>>
    /\ tasks' = <<>>
    /\ waiters' = <<>>
    /\ batch_start' = 0
    /\ ri' = 0
    /\ dl_i' = 0
    /\ oidx' = 0
    /\ histories' = <<>>
    /\ out_start' = Len(out_file)
    /\ IF progress_file.state = "torn"
       THEN /\ dl_pc' = "crashed"
            /\ done_slugs' = {}
            /\ loaded_done' = {}
            /\ dl_markets' = <<>>
            /\ semaphore' = 0
       ELSE LET done == LoadDone(progress_file)
                ms   == Remaining(meta_file, done)
            IN  /\ done_slugs' = done
                /\ loaded_done' = done
                /\ dl_markets' = ms
                /\ semaphore' = IF prog = "download_cwbb_fast" THEN CONCURRENCY ELSE 0
                /\ dl_pc' = IF prog = "download_cwbb_fast" THEN "batch"
                            ELSE IF ms = <<>> THEN "save_open" ELSE "fetch"
    /\ UNCHANGED <<meta_file, progress_file, out_file>>
    /\ UNCHANGED <<analyzerVars, dotaVars>>

StartAny == \E prog \in DlPrograms : Start(prog)

\* the process is killed: what is in memory is lost, the buffer of `out` too
Kill ==
    /\ dl_pc \notin {"off", "killed", "done", "crashed"}
    /\ dl_pc' = "killed"
    /\ out_buf' = <<>>
    /\ done_slugs' = {}
    /\ loaded_done' = {}
    /\ out_start' = 0
    /\ dl_markets' = <<>>
    /\ dl_i' = 0
    /\ oidx' = 0
    /\ histories' = <<>>
    /\ batch_start' = 0
    /\ tasks' = <<>>
    /\ semaphore' = 0
    /\ waiters' = <<>>
    /\ ri' = 0
    /\ served' = <<>>
    /\ UNCHANGED <<program, runs, meta_file, progress_file, out_file>>
    /\ UNCHANGED <<analyzerVars, dotaVars>>

\* download_cwbb: h = fetch_history(m['tokens'][oidx]); histories[tag] = h
SlowFetch ==
    /\ program = "download_cwbb"
    /\ dl_pc = "fetch"
    /\ LET m == dl_markets[dl_i + 1] IN
       \E resp \in Responses :
          /\ histories' = PutHistory(histories, Tag(oidx, m.winner_idx),
                                     FetchedHistory(resp))
          /\ served' = [r \in (DOMAIN served) \cup {<<m.slug, oidx>>} |->
                           IF r = <<m.slug, oidx>> THEN resp.status ELSE served[r]]
    /\ oidx' = oidx + 1
    /\ dl_pc' = IF oidx = 1 THEN "write_rec" ELSE "fetch"
    /\ UNCHANGED <<program, runs, meta_file, progress_file, out_file, out_buf,
                   done_slugs, loaded_done, out_start, dl_markets, dl_i,
                   batch_start, tasks, semaphore, waiters, ri>>
    /\ UNCHANGED <<analyzerVars, dotaVars>>

\* download_cwbb: out.write(json.dumps(record) + '\n'); the buffer of `out`
\* may hand any part of what it holds to the disk
SlowWrite ==
    /\ program = "download_cwbb"
    /\ dl_pc = "write_rec"
    /\ LET b == Append(out_buf, Record(dl_markets[dl_i + 1], histories) ) IN
       \E n \in 0..Len(b) :
          /\ out_file' = out_file \o SubSeq(b, 1, n)
          /\ out_buf' = SubSeq(b, n + 1, Len(b))
    /\ dl_pc' = "flush_rec"
    /\ UNCHANGED <<program, runs, meta_file, progress_file, done_slugs, loaded_done,
                   out_start, dl_markets, dl_i, oidx, histories, batch_start, tasks,
                   semaphore, waiters, ri, served>>
    /\ UNCHANGED <<analyzerVars, dotaVars>>

\* download_cwbb: out.flush(); done_slugs.add(m['slug']); then the progress
\* is saved if (i + 1) % 50 == 0, and the loop goes on
SlowFlush ==
    /\ program = "download_cwbb"
    /\ dl_pc = "flush_rec"
    /\ out_file' = Flushed(out_file, out_buf)
    /\ out_buf' = <<>>
    /\ done_slugs' = done_slugs \cup {dl_markets[dl_i + 1].slug}
    /\ IF (dl_i + 1) % ProgressEvery = 0
       THEN /\ dl_pc' = "save_open"
            /\ UNCHANGED <<dl_i, oidx, histories>>
       ELSE /\ dl_i' = dl_i + 1
            /\ oidx' = 0
            /\ histories' = <<>>
            /\ dl_pc' = IF dl_i + 1 < Len(dl_markets) THEN "fetch" ELSE "save_open"
    /\ UNCHANGED <<program, runs, meta_file, progress_file, loaded_done, out_start,
                   dl_markets, batch_start, tasks, semaphore, waiters, ri, served>>
    /\ UNCHANGED <<analyzerVars, dotaVars>>

\* download_cwbb_fast: `for batch_start in range(0, len(markets), batch_size)`:
\* the tasks of the next batch are made, or the loop ends
NextBatch ==
    /\ program = "download_cwbb_fast"
    /\ dl_pc = "batch"
    /\ IF batch_start < Len(dl_markets)
       THEN LET batch == SubSeq(dl_markets, batch_start + 1,
                                Min2(batch_start + batch_size, Len(dl_markets)))
            IN  /\ tasks' = [k \in 1..Len(batch) |->
                                [m |-> batch[k], st |-> "new", oidx |-> 0,
                                 histories |-> <<>>]]
                /\ dl_pc' = "gather"
       ELSE /\ tasks' = <<>>
            /\ dl_pc' = "close"
    /\ ri' = 0
    /\ UNCHANGED <<program, runs, meta_file, progress_file, out_file, out_buf,
                   done_slugs, loaded_done, out_start, dl_markets, dl_i, oidx,
                   histories, batch_start, semaphore, waiters, served>>
    /\ UNCHANGED <<analyzerVars, dotaVars>>

\* process_market reaches `async with semaphore`: the task enters and sends
\* the request of outcome 0, or waits in line; the tasks of a gather may take
\* this step in any order
TaskEnter(t) ==
    /\ program = "download_cwbb_fast"
    /\ dl_pc = "gather"
    /\ tasks[t].st = "new"
    /\ IF CanAcquire(semaphore)
       THEN /\ semaphore' = semaphore - 1
            /\ tasks' = [tasks EXCEPT ![t].st = "inside"]
            /\ served' = Issue(served, <<tasks[t].m.slug, 0>>)
            /\ UNCHANGED waiters
       ELSE /\ tasks' = [tasks EXCEPT ![t].st = "waiting"]
            /\ waiters' = Append(waiters, t)
            /\ UNCHANGED <<semaphore, served>>
    /\ UNCHANGED <<program, runs, meta_file, progress_file, out_file, out_buf,
                   done_slugs, loaded_done, out_start, dl_markets, dl_pc, dl_i, oidx,
                   histories, batch_start, ri>>
    /\ UNCHANGED <<analyzerVars, dotaVars>>

\* `histories[tag] = await fetch_history(...)` comes back in a task: after
\* outcome 0 the request of outcome 1 is sent; after outcome 1 the task
\* returns its record and leaves the semaphore, which lets the first waiter in
FetchReturn(t) ==
    /\ program = "download_cwbb_fast"
    /\ dl_pc = "gather"
    /\ tasks[t].st = "inside"
    /\ LET m   == tasks[t].m
           o   == tasks[t].oidx
           req == <<m.slug, o>>
       IN
       /\ req \in InFlight
       /\ \E resp \in Responses :
            LET h  == PutHistory(tasks[t].histories, Tag(o, m.winner_idx),
                                 FetchedHistory(resp))
                s1 == [served EXCEPT ![req] = resp.status]
            IN
            IF o = 0
            THEN /\ tasks' = [tasks EXCEPT ![t].histories = h, ![t].oidx = 1]
                 /\ served' = Issue(s1, <<m.slug, 1>>)
                 /\ UNCHANGED <<semaphore, waiters>>
            ELSE LET t1 == [tasks EXCEPT ![t].histories = h, ![t].st = "done"] IN
                 IF waiters = <<>>
                 THEN /\ tasks' = t1
                      /\ served' = s1
                      /\ semaphore' = semaphore + 1
                      /\ UNCHANGED waiters
                 ELSE LET w == Head(waiters) IN
                      /\ tasks' = [t1 EXCEPT ![w].st = "inside"]
                      /\ served' = Issue(s1, <<tasks[w].m.slug, 0>>)
                      /\ waiters' = Tail(waiters)
                      /\ UNCHANGED semaphore
    /\ UNCHANGED <<program, runs, meta_file, progress_file, out_file, out_buf,
                   done_slugs, loaded_done, out_start, dl_markets, dl_pc, dl_i, oidx,
                   histories, batch_start, ri>>
    /\ UNCHANGED <<analyzerVars, dotaVars>>

\* any task of the gather that can take a step takes it
TaskEnters == \E t \in DOMAIN tasks : TaskEnter(t)

TaskReturns == \E t \in DOMAIN tasks : FetchReturn(t)

\* results = await asyncio.gather(*tasks): every task has returned
GatherDone ==
    /\ program = "download_cwbb_fast"
    /\ dl_pc = "gather"
    /\ \A t \in 1..Len(tasks) : tasks[t].st = "done"
    /\ dl_pc' = "write"
    /\ ri' = 1
    /\ UNCHANGED <<program, runs, meta_file, progress_file, out_file, out_buf,
                   done_slugs, loaded_done, out_start, dl_markets, dl_i, oidx,
                   histories, batch_start, tasks, semaphore, waiters, served>>
    /\ UNCHANGED <<analyzerVars, dotaVars>>

\* `for r in results`: out.write(json.dumps(r) + '\n'); done_slugs.add(r['slug'])
WriteResult ==
    /\ program = "download_cwbb_fast"
    /\ dl_pc = "write"
    /\ ri <= Len(tasks)
    /\ LET b == Append(out_buf, Record(tasks[ri].m, tasks[ri].histories)) IN
       \E n \in 0..Len(b) :
          /\ out_file' = out_file \o SubSeq(b, 1, n)
          /\ out_buf' = SubSeq(b, n + 1, Len(b))
    /\ done_slugs' = done_slugs \cup {tasks[ri].m.slug}
    /\ ri' = ri + 1
    /\ UNCHANGED <<program, runs, meta_file, progress_file, loaded_done, out_start,
                   dl_markets, dl_pc, dl_i, oidx, histories, batch_start, tasks,
                   semaphore, waiters, served>>
    /\ UNCHANGED <<analyzerVars, dotaVars>>

\* out.flush() after the records of the batch
FlushOut ==
    /\ program = "download_cwbb_fast"
    /\ dl_pc = "write"
    /\ ri > Len(tasks)
    /\ out_file' = Flushed(out_file, out_buf)
    /\ out_buf' = <<>>
    /\ dl_pc' = "save_open"
    /\ UNCHANGED <<program, runs, meta_file, progress_file, done_slugs, loaded_done,
                   out_start, dl_markets, dl_i, oidx, histories, batch_start, tasks,
                   semaphore, waiters, ri, served>>
    /\ UNCHANGED <<analyzerVars, dotaVars>>

\* open(PROGRESS_FILE, 'w'): the file is cut to nothing
OpenProgress ==
    /\ dl_pc = "save_open"
    /\ progress_file' = [state |-> "torn", done |-> {}]
    /\ dl_pc' = "save_dump"
    /\ UNCHANGED <<program, runs, meta_file, out_file, out_buf, done_slugs,
                   loaded_done, out_start, dl_markets, dl_i, oidx, histories,
                   batch_start, tasks, semaphore, waiters, ri, served>>
    /\ UNCHANGED <<analyzerVars, dotaVars>>

\* json.dump({'done': list(done_slugs)}, pf) and the end of its `with`; then
\* download_cwbb_fast goes to its next batch, and download_cwbb to its next
\* market, to its final save or, after the final save, to the end
DumpProgress ==
    /\ dl_pc = "save_dump"
    /\ progress_file' = [state |-> "ok", done |-> done_slugs]
    /\ IF program = "download_cwbb_fast"
       THEN /\ batch_start' = batch_start + batch_size
            /\ dl_pc' = "batch"
            /\ UNCHANGED <<dl_i, oidx, histories>>
       ELSE IF dl_i < Len(dl_markets)
            THEN /\ dl_i' = dl_i + 1
                 /\ oidx' = 0
                 /\ histories' = <<>>
                 /\ dl_pc' = IF dl_i + 1 < Len(dl_markets) THEN "fetch"
                             ELSE "save_open"
                 /\ UNCHANGED batch_start
            ELSE /\ dl_pc' = "close"
                 /\ UNCHANGED <<dl_i, oidx, histories, batch_start>>
    /\ UNCHANGED <<program, runs, meta_file, out_file, out_buf, done_slugs,
                   loaded_done, out_start, dl_markets, tasks, semaphore, waiters,
                   ri, served>>
    /\ UNCHANGED <<analyzerVars, dotaVars>>

\* the end of `with open(OUT_FILE, 'a') as out`: the file is closed
CloseOut ==
    /\ dl_pc = "close"
    /\ out_file' = Flushed(out_file, out_buf)
    /\ out_buf' = <<>>
    /\ dl_pc' = "done"
    /\ UNCHANGED <<program, runs, meta_file, progress_file, done_slugs, loaded_done,
                   out_start, dl_markets, dl_i, oidx, histories, batch_start, tasks,
                   semaphore, waiters, ri, served>>
    /\ UNCHANGED <<analyzerVars, dotaVars>>

NextDownload ==
    \/ StartAny
    \/ Kill
    \/ SlowFetch
    \/ SlowWrite
    \/ SlowFlush
    \/ NextBatch
    \/ TaskEnters
    \/ TaskReturns
    \/ GatherDone
    \/ WriteResult
    \/ FlushOut
    \/ OpenProgress
    \/ DumpProgress
    \/ CloseOut

SpecDownload == InitDownload /\ [][NextDownload]_vars

\* download_cwbb_fast alone, never killed.  Every request comes back within
\* its ClientTimeout(total=10) and the event loop runs every task that can
\* run, so a step that stays possible is taken
StartFast == Start("download_cwbb_fast")

NextFast ==
    \/ StartFast
    \/ NextBatch
    \/ TaskEnters
    \/ TaskReturns
    \/ GatherDone
    \/ WriteResult
    \/ FlushOut
    \/ OpenProgress
    \/ DumpProgress
    \/ CloseOut

SpecFastLive == InitDownload /\ [][NextFast]_vars /\ WF_vars(NextFast)

----------------------------------------------------------------------------
(* dota2/scrape_opendota_v2.py: the match details of the pro matches that   *)
(* are not in dota2_gold_timeseries.jsonl yet, three attempts for each      *)

\* matches listed by step 1 of the scraper
MaxMatches == 3

\* `for attempt in range(3)`
NumAttempts == 3

\* what a request of a match can come back with: an error of urlopen or of
\* json.loads; details whose radiant_gold_adv is null, on which
\* len(gold_adv) raises; details without gold; details with gold
DotaResponses == {"error", "null_gold", "no_gold", "gold"}

\* a record of the output file
DotaRecord(mid, has_timeseries) ==
    [match_id |-> mid, has_timeseries |-> has_timeseries]

\* a line of the output file that json.loads rejects
BadLine == [torn |-> TRUE]

\* the records of a set of matches, in the order of their ids
RECURSIVE RecordsOf(_)
RecordsOf(S) ==
    IF S = {} THEN <<>>
    ELSE LET lo == CHOOSE x \in S : \A y \in S : x <= y
         IN  <<DotaRecord(lo, TRUE)>> \o RecordsOf(S \ {lo})

\* the output file left by earlier runs
DotaFiles ==
    {RecordsOf(S) : S \in SUBSET (1..MaxMatches)}
    \cup {Append(RecordsOf(S), BadLine) : S \in SUBSET (1..MaxMatches)}

\* the list match_ids: the newest matches first, as proMatches pages them
MatchLists ==
    {[k \in 1..n |-> [match_id |-> MaxMatches + 1 - k]] : n \in 0..MaxMatches}

\* existing_ids: rec["match_id"] of every line that parses, `except: pass`
ExistingIds(file) ==
    {file[k].match_id : k \in {j \in 1..Len(file) : "match_id" \in DOMAIN file[j]}}

\* to_fetch = [m for m in match_ids if m["match_id"] not in existing_ids]
ToFetch(ms, ids) == SelectSeq(ms, LAMBDA m : m.match_id \notin ids)

\* the try block runs to `break`
Succeeds(resp) == resp \in {"no_gold", "gold"}

\* `if not gold_adv: skipped_no_gold += 1`, reached before len(gold_adv)
NoGold(resp) == resp \in {"null_gold", "no_gold"}

\* variant: only the first failure sleeps and retries without counting
WillRetry_Once(a) == a < 1

\* `if attempt < 2: time.sleep(3)`, `else: errors += 1`
WillRetry(a) == a < 2

InitDota ==
    /\ AnalyzerIdle
    /\ DownloadIdle
    /\ program = "scrape_opendota_v2"
    /\ dota_file \in DotaFiles
    /\ match_ids \in MatchLists
    /\ existing_ids = {}
    /\ to_fetch = <<>>
    /\ dota_pc = "load"
    /\ dota_i = 0
    /\ attempt = 0
    /\ processed = 0
    /\ errors = 0
    /\ skipped_no_gold = 0
    /\ attempts_log = <<>>

\* the ids of the output file are loaded and the matches to fetch are listed
DotaLoad ==
    /\ dota_pc = "load"
    /\ LET ids == ExistingIds(dota_file)
           tf  == ToFetch(match_ids, ids)
       IN  /\ existing_ids' = ids
           /\ to_fetch' = tf
           /\ attempts_log' = [k \in 1..Len(tf) |-> <<>>]
           /\ dota_pc' = IF tf = <<>> THEN "done" ELSE "attempt"
    /\ UNCHANGED <<dota_file, match_ids, dota_i, attempt, processed, errors,
                   skipped_no_gold>>
    /\ UNCHANGED <<analyzerVars, program, downloadVars>>

\* one pass of `for attempt in range(3)`: the try block and its except
Attempt ==
    /\ dota_pc = "attempt"
    /\ \E resp \in DotaResponses :
          /\ attempts_log' = [attempts_log EXCEPT ![dota_i + 1] = Append(@, resp)]
          /\ skipped_no_gold' = IF resp # "error" /\ NoGold(resp)
                                THEN skipped_no_gold + 1 ELSE skipped_no_gold
          /\ IF Succeeds(resp)
             THEN /\ dota_file' = Append(dota_file,
                                     DotaRecord(to_fetch[dota_i + 1].match_id,
                                                resp = "gold"))
                  /\ processed' = processed + 1
                  /\ dota_pc' = "sleep"
                  /\ UNCHANGED <<errors, attempt>>
             ELSE /\ errors' = IF WillRetry(attempt) THEN errors ELSE errors + 1
                  /\ IF attempt + 1 < NumAttempts
                     THEN attempt' = attempt + 1 /\ dota_pc' = "attempt"
                     ELSE attempt' = attempt /\ dota_pc' = "sleep"
                  /\ UNCHANGED <<dota_file, processed>>
    /\ UNCHANGED <<match_ids, existing_ids, to_fetch, dota_i>>
    /\ UNCHANGED <<analyzerVars, program, downloadVars>>

\* time.sleep(1.05) and the next match of to_fetch, or the end of the loop
NextMatch ==
    /\ dota_pc = "sleep"
    /\ dota_i' = dota_i + 1
    /\ attempt' = 0
    /\ dota_pc' = IF dota_i + 1 < Len(to_fetch) THEN "attempt" ELSE "done"
    /\ UNCHANGED <<dota_file, match_ids, existing_ids, to_fetch, processed, errors,
                   skipped_no_gold, attempts_log>>
    /\ UNCHANGED <<analyzerVars, program, downloadVars>>

NextDota ==
    \/ DotaLoad
    \/ Attempt
    \/ NextMatch

SpecDota == InitDota /\ [][NextDota]_vars

----------------------------------------------------------------------------
(* What the properties are stated in: the file's price paths, read directly *)

PointPrice(pt) == IF "p" \in DOMAIN pt THEN pt.p ELSE 0

SidePath(m, key, label) ==
    IF key \in DOMAIN m /\ Len(m[key]) > 0
    THEN << [side |-> label,
             prices |-> [k \in 1..Len(m[key]) |-> PointPrice(m[key][k])]] >>
    ELSE <<>>

\* the non-empty price paths of the file, winner side before loser side
RECURSIVE PathsOf(_)
PathsOf(ms) ==
    IF ms = <<>> THEN <<>>
    ELSE SidePath(Head(ms), "winner_history", "winner")
         \o SidePath(Head(ms), "loser_history", "loser")
         \o PathsOf(Tail(ms))

Reaches(ps, e) == \E k \in 1..Len(ps) : ps[k] >= e

FirstCross(ps, e) ==
    CHOOSE k \in 1..Len(ps) : ps[k] >= e /\ \A j \in 1..(k - 1) : ps[j] < e

MinOnward(ps, k) ==
    CHOOSE x \in {ps[j] : j \in k..Len(ps)} : \A j \in k..Len(ps) : x <= ps[j]

Reported == pc = "report"

----------------------------------------------------------------------------
(* C1: in every cell each of the four counters counts exactly the entered   *)
(* paths of one (label, stopped) combination, stopped meaning that the      *)
(* minimum price from the first crossing onward is <= the stop-loss:        *)
(* winner not stopped -> wins, winner stopped -> fp_sl, loser stopped ->    *)
(* true_sl, loser not stopped -> losses.                                    *)
C1_Classification ==
    Reported =>
        LET P == PathsOf(markets) IN
        \A e \in EntrySet :
            LET Ent  == {k \in 1..Len(P) : Reaches(P[k].prices, e)}
                minA == [k \in Ent |-> MinOnward(P[k].prices, FirstCross(P[k].prices, e))]
            IN  \A sl \in SLSet :
                  LET r == results[e][sl] IN
                  /\ r.wins = Cardinality({k \in Ent :
                                  P[k].side = "winner" /\ ~(minA[k] <= sl)})
                  /\ r.fp_sl = Cardinality({k \in Ent :
                                  P[k].side = "winner" /\ minA[k] <= sl})
                  /\ r.true_sl = Cardinality({k \in Ent :
                                  P[k].side = "loser" /\ minA[k] <= sl})
                  /\ r.losses = Cardinality({k \in Ent :
                                  P[k].side = "loser" /\ ~(minA[k] <= sl)})

\* a run whose grid holds a win, a false-positive stop, a true stop and a loss
C1_Witness ==
    /\ Reported
    /\ \E e \in EntrySet : \E s1, s2 \in SLSet :
          /\ results[e][s1].fp_sl = 1 /\ results[e][s1].true_sl = 1
          /\ results[e][s2].wins = 1 /\ results[e][s2].losses = 1

(* C2: in every cell total_trades is the sum of the four counts and is the  *)
(* number of non-empty paths with at least one sample >= entry.             *)
C2_Partition ==
    Reported =>
        LET P == PathsOf(markets) IN
        \A e \in EntrySet :
            LET nEntered == Cardinality({k \in 1..Len(P) : Reaches(P[k].prices, e)}) IN
            \A sl \in SLSet :
                LET r == results[e][sl] IN
                /\ r.total_trades = r.wins + r.losses + r.fp_sl + r.true_sl
                /\ r.total_trades = nEntered

\* a cell counting two trades, and a cell that leaves the non-empty paths out
C2_Witness ==
    /\ Reported
    /\ Len(PathsOf(markets)) = 2
    /\ \E e1, e2 \in EntrySet : \E sl \in SLSet :
          /\ results[e1][sl].total_trades = 2
          /\ results[e1][sl].true_sl = 1
          /\ results[e2][sl].total_trades = 0

(* C3: the backward pass leaves suffix_min[j] = min(prices[j..n-1]) at every  *)
(* index it has filled, and when it ends suffix_min[n-1] = prices[n-1] and   *)
(* suffix_min[j] = min(prices[j], suffix_min[j+1]) below, for every          *)
(* non-empty price list, the single-sample one included.                     *)
C3_SuffixMin ==
    pc \in {"suffix_loop", "path_done"} =>
        LET n == Len(prices) IN
        /\ Len(suffix_min) = n
        /\ \A j \in (i + 1)..n : suffix_min[j] = MinOnward(prices, j)
        /\ pc = "path_done" =>
              /\ suffix_min[n] = prices[n]
              /\ \A j \in 1..(n - 1) :
                    suffix_min[j] = (IF prices[j] <= suffix_min[j + 1]
                                     THEN prices[j] ELSE suffix_min[j + 1])
              /\ suffix_min = SuffixMin(prices)

\* a finished pass over a path that falls and rises again
C3_Witness ==
    /\ pc = "path_done"
    /\ Len(prices) >= 3
    /\ prices[1] > prices[2]
    /\ prices[3] > prices[2]
    /\ suffix_min[1] = prices[2]
    /\ suffix_min[3] > suffix_min[2]

(* C4: unit mode on the file of the two paths winner [0.5, 0.82, 0.90, 0.60, *)
(* 0.99] and loser [0.5, 0.85, 0.40, 0.10]: both enter entry 0.80 at index 1 *)
(* with minimum 0.60 and 0.10 after entry, and the cell (0.80, 0.50) is      *)
(* wins=1, losses=0, fp_sl=0, true_sl=1, net=-0.10, total_trades=2,          *)
(* win_rate=100.0.                                                           *)
C4_Scenario ==
    (/\ script = "analyze_sport"
     /\ 80 \in DOMAIN results
     /\ 50 \in DOMAIN results[80]) =>
        /\ Len(preprocessed) = 2
        /\ preprocessed[1].side = "winner"
        /\ preprocessed[2].side = "loser"
        /\ EntryIdx(ScenarioWinner, 80) = 2
        /\ EntryIdx(ScenarioLoser, 80) = 2
        /\ preprocessed[1].entry_map[80] = Some(60)
        /\ preprocessed[2].entry_map[80] = Some(10)
        /\ results[80][50].wins = 1
        /\ results[80][50].losses = 0
        /\ results[80][50].fp_sl = 0
        /\ results[80][50].true_sl = 1
        /\ results[80][50].net = -10
        /\ results[80][50].total_trades = 2
        /\ results[80][50].win_rate = 1000

\* the unit-mode run on the two-path file has written the cell and reported
C4_Witness ==
    /\ script = "analyze_sport"
    /\ markets = ScenarioMarkets
    /\ Reported
    /\ results[80][50].total_trades = 2

(* C5: for a fixed entry and stop-losses sl1 > sl2, the number of stopped    *)
(* trades true_sl + fp_sl of cell (entry, sl2) is <= that of (entry, sl1).   *)
C5_MonotoneStops ==
    Reported =>
        \A e \in EntrySet : \A sl1, sl2 \in SLSet :
            sl1 > sl2 =>
                results[e][sl2].true_sl + results[e][sl2].fp_sl
                    <= results[e][sl1].true_sl + results[e][sl1].fp_sl

\* an entry whose stop count falls from 2 to 0 as the stop-loss decreases
C5_Witness ==
    /\ Reported
    /\ \E e \in EntrySet : \E sl1, sl2 \in SLSet :
          /\ sl1 > sl2
          /\ results[e][sl1].true_sl + results[e][sl1].fp_sl = 2
          /\ results[e][sl2].true_sl + results[e][sl2].fp_sl = 0

(* C6, as stated: in every cell the notional-mode profit of analyze_sport_v2   *)
(* equals NOTIONAL times the unit-mode profit of analyze_sport on the same    *)
(* paths, before rounding.                                                    *)
C6_NotionalIsStakeTimesUnit ==
    (Reported /\ script = "analyze_sport_v2") =>
        \A e \in EntrySet : \A sl \in SLSet :
            results[e][sl].profit
                = RMul(RInt(NOTIONAL), UnitCell(preprocessed, e, sl).profit)

(* C6, amended: in every cell the notional-mode profit equals the number of   *)
(* shares NOTIONAL / entry times the unit-mode profit on the same paths,      *)
(* before rounding.                                                           *)
C6_NotionalIsSharesTimesUnit ==
    (Reported /\ script = "analyze_sport_v2") =>
        \A e \in EntrySet : \A sl \in SLSet :
            results[e][sl].profit
                = RMul(Rat(NOTIONAL * 100, e), UnitCell(preprocessed, e, sl).profit)

\* a notional-mode cell with a win and a true stop and a profit that is not zero
C6_Witness ==
    /\ Reported
    /\ script = "analyze_sport_v2"
    /\ \E e \in EntrySet : \E sl \in SLSet :
          /\ results[e][sl].wins = 1
          /\ results[e][sl].true_sl = 1
          /\ results[e][sl].profit # RInt(0)

(* C7: a path with no sample >= entry gets None for that entry and adds       *)
(* nothing to any cell of that entry (the cell is the one computed without    *)
(* it); when no path reaches the entry, every cell of the entry has           *)
(* total_trades = 0 and zero profit and the summary prints no row for it.     *)
C7_NoEntryExclusion ==
    Reported =>
        LET P == PathsOf(markets) IN
        /\ Len(preprocessed) = Len(P)
        /\ \A e \in EntrySet :
              LET In      == {k \in 1..Len(P) : Reaches(P[k].prices, e)}
                  entered == SelectSeq(preprocessed, LAMBDA pp : pp.entry_map[e] # None)
              IN
              /\ \A k \in 1..Len(P) : (k \notin In) <=> (preprocessed[k].entry_map[e] = None)
              /\ \A sl \in SLSet : results[e][sl] = Cell(script, entered, e, sl)
              /\ In = {} =>
                    /\ \A sl \in SLSet :
                          /\ results[e][sl].total_trades = 0
                          /\ results[e][sl].wins = 0 /\ results[e][sl].losses = 0
                          /\ results[e][sl].fp_sl = 0 /\ results[e][sl].true_sl = 0
                          /\ results[e][sl].profit = RInt(0)
                    /\ \A k \in 1..Len(summary) : summary[k].entry # e

\* the only path reaches no entry: an empty grid and an empty summary
C7_Witness ==
    /\ Reported
    /\ Len(PathsOf(markets)) = 1
    /\ Len(preprocessed) = 1
    /\ \A e \in EntrySet : preprocessed[1].entry_map[e] = None
    /\ summary = <<>>

(* C8: in every cell win_rate is 100 * wins / max(1, wins + fp_sl + losses)   *)
(* to one decimal: true_sl is not in the denominator, and with                *)
(* wins + fp_sl + losses = 0 the denominator is 1 and the win rate 0.         *)
C8_WinRate ==
    Reported =>
        \A e \in EntrySet : \A sl \in SLSet :
            LET r == results[e][sl]
                t == r.wins + r.fp_sl + r.losses
                d == IF t = 0 THEN 1 ELSE t
            IN  /\ 2 * Abs(r.win_rate * d - 1000 * r.wins) <= d
                /\ t = 0 => r.win_rate = 0

\* a cell of true stops only, and under a lower stop-loss the same trade as a
\* resolution loss, in the denominator
C8_Witness ==
    /\ Reported
    /\ \E e \in EntrySet : \E s1, s2 \in SLSet :
          /\ results[e][s1].true_sl = 1
          /\ results[e][s1].wins + results[e][s1].fp_sl + results[e][s1].losses = 0
          /\ results[e][s1].win_rate = 0
          /\ results[e][s2].losses = 1
          /\ results[e][s2].win_rate = 0

(* C9: the best stop-loss reported for an entry maximizes the cell's net       *)
(* profit over the whole stop-loss sequence, and every stop-loss earlier in   *)
(* the sequence 0.70..0.20, that is numerically higher, has a strictly lower  *)
(* net profit.                                                                *)
C9_BestSL ==
    Reported =>
        \A k \in 1..Len(summary) :
            LET e    == summary[k].entry
                best == summary[k].best_sl
            IN  /\ e \in EntrySet
                /\ best \in SLSet
                /\ summary[k].r = results[e][best]
                /\ \A sl \in SLSet :
                      /\ NetKey(script, results[e][sl]) <= NetKey(script, results[e][best])
                      /\ ~RLess(results[e][best].profit, results[e][sl].profit)
                      /\ sl > best =>
                            /\ NetKey(script, results[e][sl]) < NetKey(script, results[e][best])
                            /\ RLess(results[e][sl].profit, results[e][best].profit)

\* a row whose best stop-loss is not the first of the sequence and ties with a
\* lower stop-loss
C9_Witness ==
    /\ Reported
    /\ \E k \in 1..Len(summary) :
          LET e    == summary[k].entry
              best == summary[k].best_sl
          IN  /\ best < sls[1]
              /\ \E sl \in SLSet :
                    /\ sl < best
                    /\ results[e][sl].profit = results[e][best].profit

(* C10: a market side whose history is missing or empty adds no element to    *)
(* the preprocessed table and raises no error; the preprocessed table is the  *)
(* list of the non-empty sides, so the other side of the market is still      *)
(* processed, and no cell counts more trades than there are non-empty sides.  *)
C10_EmptySideSkipped ==
    /\ pc # "error"
    /\ pc \in {"sweep", "summary", "report"} =>
          LET P == PathsOf(markets) IN
          /\ Len(preprocessed) = Len(P)
          /\ \A k \in 1..Len(P) : preprocessed[k].side = P[k].side
    /\ Reported =>
          \A e \in EntrySet : \A sl \in SLSet :
              results[e][sl].total_trades <= Len(PathsOf(markets))

\* the loser side of a market with an empty winner array is still preprocessed
C10_Witness ==
    /\ Reported
    /\ Len(markets) = 1
    /\ "winner_history" \in DOMAIN markets[1]
    /\ markets[1].winner_history = <<>>
    /\ Len(preprocessed) = 1
    /\ preprocessed[1].side = "loser"
    /\ \E e \in EntrySet : \E sl \in SLSet : results[e][sl].total_trades = 1

(* C11: an entry that no path reaches has total_trades = 0 in the cell of      *)
(* every stop-loss and no row in the best-stop-loss summary; an entry that    *)
(* at least one path reaches has exactly one row in the summary.              *)
C11_SummaryRows ==
    Reported =>
        LET P == PathsOf(markets) IN
        \A e \in EntrySet :
            LET nEntered == Cardinality({k \in 1..Len(P) : Reaches(P[k].prices, e)})
                rows     == {k \in 1..Len(summary) : summary[k].entry = e}
            IN  /\ nEntered = 0 =>
                      /\ \A sl \in SLSet : results[e][sl].total_trades = 0
                      /\ rows = {}
                /\ nEntered > 0 => Cardinality(rows) = 1

\* a run that prints a row for an entry whose only trade is a loser, and none
\* for a higher entry that no path reaches
C11_Witness ==
    /\ Reported
    /\ \E e1, e2 \in EntrySet :
          /\ e1 < e2
          /\ \E k \in 1..Len(summary) :
                /\ summary[k].entry = e1
                /\ summary[k].r.wins = 0
                /\ summary[k].r.total_trades = 1
          /\ \A k \in 1..Len(summary) : summary[k].entry # e2
          /\ \A sl \in SLSet : results[e2][sl].total_trades = 0

(* C12: in unit mode the profit accumulated for a cell (entry, sl), before     *)
(* rounding, is wins*(1 - entry) - (fp_sl + true_sl)*(entry - sl)             *)
(* - losses*entry: a win adds 1 - entry, a stop of either kind -(entry - sl), *)
(* a resolution loss -entry.                                                  *)
C12_UnitProfit ==
    (Reported /\ script = "analyze_sport") =>
        \A e \in EntrySet : \A sl \in SLSet :
            LET r == results[e][sl] IN
            r.profit = RInt(r.wins * (100 - e)
                            - (r.fp_sl + r.true_sl) * (e - sl)
                            - r.losses * e)

\* a unit-mode grid with a cell of one false-positive stop and one true stop
\* and, at a lower stop-loss, the cell of the same two trades as a win and a loss
C12_Witness ==
    /\ Reported
    /\ script = "analyze_sport"
    /\ \E e \in EntrySet : \E s1, s2 \in SLSet :
          /\ results[e][s1].fp_sl = 1 /\ results[e][s1].true_sl = 1
          /\ results[e][s1].profit = RInt(-2 * (e - s1))
          /\ results[e][s2].wins = 1 /\ results[e][s2].losses = 1
          /\ results[e][s2].profit = RInt(100 - 2 * e)

(* C13: in notional mode, with shares = NOTIONAL / entry, the profit           *)
(* accumulated for a cell, before rounding, is shares*wins                    *)
(* + shares*sl*(fp_sl + true_sl) - NOTIONAL*total_trades, and net_per_trade   *)
(* is that profit divided by max(1, total_trades), to the cent.               *)
C13_NotionalProfit ==
    (Reported /\ script = "analyze_sport_v2") =>
        \A e \in EntrySet :
            LET shares == Rat(NOTIONAL * 100, e) IN
            \A sl \in SLSet :
                LET r == results[e][sl]
                    d == IF r.total_trades = 0 THEN 1 ELSE r.total_trades
                IN  /\ r.profit =
                          RSub(RAdd(RMul(shares, RInt(100 * r.wins)),
                                    RMul(shares, RInt(sl * (r.fp_sl + r.true_sl)))),
                               RInt(NOTIONAL * 100 * r.total_trades))
                    /\ 2 * Abs(r.net_per_trade * d * r.profit[2] - r.profit[1])
                          <= d * r.profit[2]
                    /\ r.total_trades = 0 => r.net_per_trade = 0

\* a notional-mode cell of two trades, one a win and one a true stop, whose
\* profit per trade is not its total, and a cell with no trade
C13_Witness ==
    /\ Reported
    /\ script = "analyze_sport_v2"
    /\ \E e \in EntrySet : \E sl \in SLSet :
          /\ results[e][sl].wins = 1
          /\ results[e][sl].true_sl = 1
          /\ results[e][sl].net_per_trade # results[e][sl].net_total
    /\ \E e \in EntrySet : \E sl \in SLSet :
          /\ results[e][sl].total_trades = 0
          /\ results[e][sl].net_per_trade = 0

(* C14: both comparisons are inclusive.  A path whose first sample equal to   *)
(* the entry has no sample above the entry before it is entered at that       *)
(* sample, and a trade whose minimum from entry onward equals the stop-loss   *)
(* is counted as stopped.                                                     *)
C14_InclusiveThresholds ==
    Reported =>
        LET P == PathsOf(markets) IN
        \A e \in EntrySet :
            LET Ent == {k \in 1..Len(P) : preprocessed[k].entry_map[e] # None}
                At  == {k \in 1..Len(P) :
                          \E j \in 1..Len(P[k].prices) :
                              /\ P[k].prices[j] = e
                              /\ \A h \in 1..(j - 1) : P[k].prices[h] < e}
            IN  /\ \A k \in At :
                      LET j == CHOOSE j \in 1..Len(P[k].prices) :
                                  /\ P[k].prices[j] = e
                                  /\ \A h \in 1..(j - 1) : P[k].prices[h] < e
                      IN  preprocessed[k].entry_map[e] = Some(MinOnward(P[k].prices, j))
                /\ \A sl \in SLSet :
                      LET r     == results[e][sl]
                          below == {k \in Ent : preprocessed[k].entry_map[e][1] < sl}
                          equal == {k \in Ent : preprocessed[k].entry_map[e][1] = sl}
                          above == {k \in Ent : preprocessed[k].entry_map[e][1] > sl}
                      IN  /\ r.fp_sl + r.true_sl = Cardinality(below) + Cardinality(equal)
                          /\ r.wins + r.losses = Cardinality(above)

\* a path entered at a first sample equal to the entry, stopped by the
\* stop-loss equal to its minimum after entry and not by the next lower one
C14_Witness ==
    /\ Reported
    /\ Len(PathsOf(markets)) = 1
    /\ \E e \in EntrySet : \E sl \in SLSet :
          /\ PathsOf(markets)[1].prices[1] = e
          /\ preprocessed[1].entry_map[e] = Some(sl)
          /\ results[e][sl].fp_sl + results[e][sl].true_sl = 1
          /\ (sl - 1) \in SLSet
          /\ results[e][sl - 1].fp_sl + results[e][sl - 1].true_sl = 0
          /\ results[e][sl - 1].total_trades = 1

(* C15: for every path and entry the outcome is either None, when no sample  *)
(* is >= entry, or one value: the minimum of the samples from the first       *)
(* index k with price >= entry to the end.  The path need not be monotonic:   *)
(* what comes before k, samples at or below a stop-loss included, does not    *)
(* count, and a later crossing does not move k.                               *)
C15_EntryOutcome ==
    pc = "path_done" =>
        /\ Len(preprocessed) = 1
        /\ \A e \in EntrySet :
              LET o == preprocessed[1].entry_map[e] IN
              /\ o = None \/ Len(o) = 1
              /\ o = None <=> ~Reaches(prices, e)
              /\ Reaches(prices, e) =>
                    LET k    == FirstCross(prices, e)
                        tail == SubSeq(prices, k, Len(prices))
                    IN  /\ EntryIdx(prices, e) = k
                        /\ o = Some(MinOnward(prices, k))
                        /\ o = Some(MinOnward(tail, 1))

\* a path that starts below every stop-loss, crosses the entry, falls under it
\* and crosses it again: the outcome is the fall, not the start
C15_Witness ==
    /\ pc = "path_done"
    /\ Len(prices) = 4
    /\ \E e \in EntrySet :
          /\ prices[1] < sls[NumSLs]
          /\ prices[2] >= e
          /\ prices[3] < e
          /\ prices[3] > prices[1]
          /\ prices[4] >= e
          /\ preprocessed[1].entry_map[e] = Some(prices[3])

\* the value of a net profit grid entry in cents: tenths of a dollar in
\* analyze_sport, dollars in analyze_sport_v2
ShownCents(scr, d) == IF scr = "analyze_sport" THEN 10 * d ELSE 100 * d

(* C16: the net profit of a cell is rounded to 2 decimal places once, for     *)
(* display only: the value the best-stop-loss argmax reads is the unrounded   *)
(* profit, and the number the net profit grid shows for a cell is the profit  *)
(* rounded to 2 decimal places, not rounded again.                            *)
C16_RoundedOnce ==
    pc = "done" =>
        /\ \A e \in EntrySet : \A sl \in SLSet :
              RInt(NetKey(script, results[e][sl])) = results[e][sl].profit
        /\ \A ci \in 1..Len(sl_chunks) : \A k \in 1..NumEntries :
              \A j \in 1..Len(sl_chunks[ci]) :
                  ShownCents(script, out.net_grid[ci][k][j])
                      = RoundHalfEven(results[entries[k]][sl_chunks[ci][j]].profit)

\* the cells written so far, as pairs <<entry, sl>>
Written == {c \in CellEntries \X CellSLs :
               c[1] \in DOMAIN results /\ c[2] \in DOMAIN results[c[1]]}

C18_PureReduction ==
    /\ [](pc = "cell" =>
            \A c \in Written :
                LET e   == c[1]
                    sl  == c[2]
                    r   == results[e][sl]
                    n   == Len(preprocessed)
                    Ent == {k \in 1..n : preprocessed[k].entry_map[e] # None}
                    Hit == {k \in Ent : preprocessed[k].entry_map[e][1] <= sl}
                    W   == {k \in 1..n : preprocessed[k].side = "winner"}
                IN  /\ \A f \in Permutations(1..n) :
                          r = Cell(script, [k \in 1..n |-> preprocessed[f[k]]], e, sl)
                    /\ r.wins = Cardinality((Ent \ Hit) \cap W)
                    /\ r.fp_sl = Cardinality(Hit \cap W)
                    /\ r.true_sl = Cardinality(Hit \ W)
                    /\ r.losses = Cardinality((Ent \ Hit) \ W))
    /\ [][pc = "cell" =>
            /\ preprocessed' = preprocessed
            /\ prices' = prices
            /\ markets' = markets
            /\ \A c \in Written : /\ c[1] \in DOMAIN results'
                                  /\ c[2] \in DOMAIN results'[c[1]]
                                  /\ results'[c[1]][c[2]] = results[c[1]][c[2]]]_vars

\* every cell written, from a table of a path that reaches an entry and, before
\* it, one that does not
C18_Witness ==
    /\ pc = "cell"
    /\ cursor = Cardinality(CellEntries \X CellSLs)
    /\ Written = CellEntries \X CellSLs
    /\ Len(preprocessed) = 2
    /\ \E e \in CellEntries : \E sl \in CellSLs :
          /\ preprocessed[1].entry_map[e] = None
          /\ preprocessed[2].entry_map[e] # None
          /\ results[e][sl].total_trades = 1

(* C19: the resolution losses section prints one line for each cell with      *)
(* losses > 0 and for no other cell, the lines in the order of the entries    *)
(* and, within an entry, of the stop-loss sequence 0.70..0.20; and it prints  *)
(* the ZERO message exactly when no cell of the grid has losses > 0.          *)
C19_ResolutionLosses ==
    pc \in {"tp", "done"} =>
        LET L == out.loss_lines IN
        /\ \A k \in 1..Len(L) :
              /\ L[k].entry \in EntrySet
              /\ L[k].sl \in SLSet
              /\ L[k].losses = results[L[k].entry][L[k].sl].losses
              /\ L[k].losses > 0
        /\ \A e \in EntrySet : \A sl \in SLSet :
              results[e][sl].losses > 0 =>
                  Cardinality({k \in 1..Len(L) : L[k].entry = e /\ L[k].sl = sl}) = 1
        /\ \A k \in 1..(Len(L) - 1) :
              \/ L[k].entry < L[k + 1].entry
              \/ L[k].entry = L[k + 1].entry /\ L[k].sl > L[k + 1].sl
        /\ out.zero_losses <=>
              \A e \in EntrySet : \A sl \in SLSet : results[e][sl].losses = 0

\* a report that lists the cells of two entries from stop-loss 0.44 down, the
\* cells above being true stops, and no ZERO message
C19_Witness ==
    /\ pc = "done"
    /\ ~out.zero_losses
    /\ Len(out.loss_lines) > NumSLs - 26
    /\ out.loss_lines[1].sl = 44
    /\ results[out.loss_lines[1].entry][45].true_sl = 1
    /\ \E k \in 2..Len(out.loss_lines) :
          /\ out.loss_lines[k].sl = 44
          /\ out.loss_lines[k].entry > out.loss_lines[1].entry

\* the prices of the winner path of a market record, read directly
WinnerPrices(m) ==
    IF "winner_history" \in DOMAIN m
    THEN [k \in 1..Len(m.winner_history) |-> PointPrice(m.winner_history[k])]
    ELSE <<>>

(* C20: in the take-profit reach section the line of an entry reports, for    *)
(* each threshold tp, the number of winner paths with a sample >= entry and   *)
(* a maximum >= tp over the number of winner paths with a sample >= entry;    *)
(* a line is printed only for an entry where the latter is not zero, and a    *)
(* winner path that never reaches the entry is in neither number.             *)
C20_TPReach ==
    pc = "done" =>
        LET L  == out.tp_lines
            In == {TPEntries(script)[k] : k \in 1..Len(TPEntries(script))}
            W(e) == {k \in 1..Len(markets) : Reaches(WinnerPrices(markets[k]), e)}
        IN
        /\ \A k \in 1..Len(L) :
              LET e == L[k].entry IN
              /\ e \in In
              /\ L[k].total_w = Cardinality(W(e))
              /\ L[k].total_w > 0
              /\ \A j \in 1..Len(TPs) :
                    LET num  == Cardinality({m \in W(e) :
                                    \E h \in 1..Len(WinnerPrices(markets[m])) :
                                        WinnerPrices(markets[m])[h] * 10 >= TPs[j]})
                        unit == IF script = "analyze_sport" THEN 1000 ELSE 100
                    IN  /\ L[k].reach[j] = num
                        /\ 2 * Abs(L[k].pcts[j] * L[k].total_w - unit * num)
                              <= L[k].total_w
        /\ \A e \in In :
              Cardinality({k \in 1..Len(L) : L[k].entry = e})
                  = (IF W(e) = {} THEN 0 ELSE 1)

\* two winners at a low entry, one of them reaching 0.95 only, and at a higher
\* entry that one alone, the other counted in neither number
C20_Witness ==
    /\ pc = "done"
    /\ \E a, b \in 1..Len(out.tp_lines) :
          /\ out.tp_lines[a].entry < out.tp_lines[b].entry
          /\ out.tp_lines[a].total_w = 2
          /\ out.tp_lines[a].reach = <<1, 0, 0, 0>>
          /\ out.tp_lines[b].total_w = 1
          /\ out.tp_lines[b].reach = <<1, 0, 0, 0>>

(* C23: for a fixed entry, wins + fp_sl is the number of entered winner paths *)
(* and losses + true_sl the number of entered loser paths in the cell of      *)
(* every stop-loss, so total_trades is the same in all of them, and           *)
(* total_trades = 0 in the best-stop-loss cell holds exactly when no path is  *)
(* entered at the entry.                                                      *)
C23_TradesIndependentOfSL ==
    Reported =>
        \A e \in EntrySet :
            LET Ent  == {k \in 1..Len(preprocessed) : preprocessed[k].entry_map[e] # None}
                nW   == Cardinality({k \in Ent : preprocessed[k].side = "winner"})
                nL   == Cardinality({k \in Ent : preprocessed[k].side = "loser"})
                best == BestSL(script, results, e)
            IN  /\ \A sl \in SLSet :
                      LET r == results[e][sl] IN
                      /\ r.wins + r.fp_sl = nW
                      /\ r.losses + r.true_sl = nL
                      /\ r.total_trades = results[e][best].total_trades
                /\ (results[e][best].total_trades = 0) <=> (Ent = {})

\* an entry with a winner and a loser that are stopped at one stop-loss and
\* not at another, and an entry that no path reaches
C23_Witness ==
    /\ Reported
    /\ \E e1, e2 \in EntrySet : \E s1, s2 \in SLSet :
          /\ results[e1][s1].fp_sl = 1 /\ results[e1][s1].true_sl = 1
          /\ results[e1][s2].wins = 1 /\ results[e1][s2].losses = 1
          /\ results[e2][s1].total_trades = 0

(* C24: for a path and entries e1 < e2, if the path is entered at e2 it is     *)
(* entered at e1, its first crossing of e1 comes no later than that of e2     *)
(* and its minimum after entry for e1 is <= that for e2; so the cell of       *)
(* (e2, sl) counts no more trades than that of (e1, sl), and a path stopped   *)
(* at (e2, sl) is stopped at (e1, sl).                                        *)
C24_EntryMonotone ==
    Reported =>
        LET P == PathsOf(markets) IN
        /\ Len(preprocessed) = Len(P)
        /\ \A k \in 1..Len(P) :
              LET em == preprocessed[k].entry_map
                  ps == P[k].prices
              IN  /\ \A e \in EntrySet :
                        em[e] # None =>
                            em[e] = Some(MinOnward(ps, FirstCross(ps, e)))
                  /\ \A e1, e2 \in EntrySet :
                        (e1 < e2 /\ em[e2] # None) =>
                            /\ em[e1] # None
                            /\ FirstCross(ps, e1) <= FirstCross(ps, e2)
                            /\ em[e1][1] <= em[e2][1]
        /\ \A e1, e2 \in EntrySet :
              e1 < e2 =>
                  \A sl \in SLSet :
                      /\ results[e2][sl].total_trades <= results[e1][sl].total_trades
                      /\ results[e2][sl].fp_sl <= results[e1][sl].fp_sl
                      /\ results[e2][sl].true_sl <= results[e1][sl].true_sl

\* a winner that crosses 0.85 after a point without 'p' and then 0.96, beside a
\* path that does not reach the higher entry: entered later and with a higher
\* minimum at the higher entry, in a cell of fewer trades
C24_Witness ==
    /\ Reported
    /\ \E k \in 1..Len(preprocessed) : \E e1, e2 \in EntrySet :
          /\ e1 < e2
          /\ preprocessed[k].entry_map[e1] = Some(85)
          /\ preprocessed[k].entry_map[e2] = Some(96)
          /\ results[e2][sls[1]].total_trades >= 1
          /\ results[e2][sls[1]].total_trades < results[e1][sls[1]].total_trades

\* C25: on the same input analyze_sport and analyze_sport_v2 classify every
\* trade alike: in every cell of the grid the script that ran and the other
\* script, given the same preprocessed paths, have the same wins, losses,
\* fp_sl, true_sl, total_trades and win_rate
C25_SameCounts ==
    Reported =>
        \A e \in EntrySet : \A sl \in SLSet :
            LET mine  == results[e][sl]
                other == IF script = "analyze_sport"
                         THEN NotionalCell(preprocessed, e, sl)
                         ELSE UnitCell(preprocessed, e, sl)
            IN  /\ mine.wins = other.wins
                /\ mine.losses = other.losses
                /\ mine.fp_sl = other.fp_sl
                /\ mine.true_sl = other.true_sl
                /\ mine.total_trades = other.total_trades
                /\ mine.win_rate = other.win_rate

\* analyze_sport has reported a file with a winner whose minimum is a
\* stop-loss of the grid: stopped at that level, a win one cent below, and the
\* profit of the cell is not the one analyze_sport_v2 computes
C25_Witness ==
    /\ Reported
    /\ script = "analyze_sport"
    /\ \E e \in EntrySet :
          /\ results[e][45].fp_sl = 1
          /\ results[e][44].wins = 1
          /\ results[e][44].fp_sl = 0
          /\ results[e][45].profit # NotionalCell(preprocessed, e, 45).profit

\* the paths of the file whose minimum from the first crossing of the entry
\* is 0: a sample at or after the entry without 'p', or with a price of 0
ZeroAfter(P, e, side) ==
    {k \in 1..Len(P) :
        /\ P[k].side = side
        /\ Reaches(P[k].prices, e)
        /\ MinOnward(P[k].prices, FirstCross(P[k].prices, e)) = 0}

\* C26: a path whose minimum after the entry is 0 is entered: its entry_map
\* value is 0 and not None, it is counted in total_trades, which is the number
\* of paths that reach the entry, and it is stopped at every stop-loss of the
\* grid, a false stop for a winner and a true stop for a loser
C26_ZeroMinIsEntered ==
    Reported =>
        LET P == PathsOf(markets) IN
        /\ Len(preprocessed) = Len(P)
        /\ \A e \in EntrySet :
              LET zw == ZeroAfter(P, e, "winner")
                  zl == ZeroAfter(P, e, "loser")
                  reach == {k \in 1..Len(P) : Reaches(P[k].prices, e)}
              IN  /\ \A k \in zw \cup zl : preprocessed[k].entry_map[e] = Some(0)
                  /\ \A k \in 1..Len(P) :
                        preprocessed[k].entry_map[e] = None <=> k \notin reach
                  /\ \A sl \in SLSet :
                        /\ results[e][sl].total_trades = Cardinality(reach)
                        /\ results[e][sl].fp_sl >= Cardinality(zw)
                        /\ results[e][sl].true_sl >= Cardinality(zl)

\* a file whose winner has a sample without 'p' after 0.85 and whose loser
\* falls to 0 after 0.90: at the entry 0.85 both are trades stopped at the
\* lowest stop-loss, and at the entry 0.91 there is no trade
C26_Witness ==
    /\ Reported
    /\ Len(preprocessed) = 2
    /\ preprocessed[1].entry_map[85] = Some(0)
    /\ preprocessed[2].entry_map[85] = Some(0)
    /\ results[85][20].fp_sl = 1
    /\ results[85][20].true_sl = 1
    /\ results[85][20].total_trades = 2
    /\ results[91][20].total_trades = 0

\* the entries of the TP section, as a set
TPEntrySet == {TPEntries(script)[k] : k \in 1..Len(TPEntries(script))}

\* C27: in the TP reach section the total_w of an entry is wins + fp_sl of
\* every cell of that entry (an entry of the section without a line has none),
\* the reach counts do not grow from 0.95 to 0.97 to 0.99 to 0.995, and the
\* count for 0.95 is at most total_w
C27_TPTotals ==
    pc = "done" =>
        /\ \A n \in 1..Len(out.tp_lines) :
              LET line == out.tp_lines[n] IN
              /\ line.entry \in TPEntrySet
              /\ \A sl \in SLSet :
                    line.total_w = results[line.entry][sl].wins
                                   + results[line.entry][sl].fp_sl
              /\ \A j \in 1..(Len(TPs) - 1) : line.reach[j] >= line.reach[j + 1]
              /\ line.reach[1] <= line.total_w
        /\ \A e \in TPEntrySet :
              (\A n \in 1..Len(out.tp_lines) : out.tp_lines[n].entry # e) =>
                  \A sl \in SLSet : results[e][sl].wins + results[e][sl].fp_sl = 0

\* a report whose line for the entry 0.85 has two winners, one of them
\* entered after a sample without 'p', of which one reaches 0.95 and none
\* reaches 0.97
C27_Witness ==
    /\ pc = "done"
    /\ \E n \in 1..Len(out.tp_lines) :
          /\ out.tp_lines[n].entry = 85
          /\ out.tp_lines[n].total_w = 2
          /\ out.tp_lines[n].reach[1] = 1
          /\ out.tp_lines[n].reach[2] < out.tp_lines[n].reach[1]
          /\ results[85][50].wins + results[85][50].fp_sl = 2

\* the chunks of a grid one after the other
RECURSIVE ChunksFlat(_)
ChunksFlat(chunks) ==
    IF chunks = <<>> THEN <<>> ELSE Head(chunks) \o ChunksFlat(Tail(chunks))

\* the places of the chunked grid that show the stop-loss sl
ChunkPlaces(sl) ==
    {c \in {<<ci, j>> : ci \in 1..Len(sl_chunks), j \in 1..15} :
        c[2] <= Len(sl_chunks[c[1]]) /\ sl_chunks[c[1]][c[2]] = sl}

\* C28: the four sl_chunks one after the other are the list sls, each of the
\* 51 stop-losses once; every value of key_sls is one of sls; so every cell the
\* report sections look up was written by the sweep, and the net grid shows
\* each of the 15 x 51 cells in exactly one place
C28_ChunksCoverGrid ==
    pc = "done" =>
        /\ ChunksFlat(sl_chunks) = sls
        /\ \A sl \in SLSet : Cardinality(ChunkPlaces(sl)) = 1
        /\ \A j \in 1..Len(key_sls) : \E n \in 1..NumSLs : sls[n] = key_sls[j]
        /\ cursor = NumCells
        /\ \A k \in 1..NumEntries :
              /\ entries[k] \in DOMAIN results
              /\ \A ci \in 1..Len(sl_chunks) : \A j \in 1..Len(sl_chunks[ci]) :
                    sl_chunks[ci][j] \in DOMAIN results[entries[k]]
              /\ \A j \in 1..Len(key_sls) : key_sls[j] \in DOMAIN results[entries[k]]
        /\ Len(out.net_grid) = Len(sl_chunks)
        /\ \A ci \in 1..Len(sl_chunks) :
              /\ Len(out.net_grid[ci]) = NumEntries
              /\ \A k \in 1..NumEntries :
                    Len(out.net_grid[ci][k]) = Len(sl_chunks[ci])
        /\ \A k \in 1..NumEntries : \A sl \in SLSet :
              \A c \in ChunkPlaces(sl) :
                  out.net_grid[c[1]][k][c[2]]
                      = NetGridValue(script, results[entries[k]][sl])

\* a finished report whose net grid changes between the columns 0.45 and 0.44
\* of the second chunk, and between the last column of the third chunk and
\* the first of the fourth
C28_Witness ==
    /\ pc = "done"
    /\ \E k \in 1..NumEntries :
          /\ out.net_grid[2][k][11] # out.net_grid[2][k][12]
          /\ out.net_grid[3][k][15] # out.net_grid[4][k][1]
          /\ out.net_grid[2][k][11] = NetGridValue(script, results[entries[k]][45])

----------------------------------------------------------------------------
(* The downloads: what the properties are stated in *)

\* the tasks of the gather inside `async with semaphore`
Inside == {t \in DOMAIN tasks : tasks[t].st = "inside"}

\* the records this run has written: those it added to the file on disk and
\* those still in the buffer of `out`
WrittenThisRun == SubSeq(out_file, out_start + 1, Len(out_file)) \o out_buf

RecordsWithSlug(recs, s) == {k \in 1..Len(recs) : recs[k].slug = s}

\* the slugs that have a record in the output file on disk
DiskSlugs == {out_file[k].slug : k \in 1..Len(out_file)}

\* C21: in download_cwbb_fast at most CONCURRENCY process_market tasks are
\* inside the semaphore, the semaphore counts the places left, every request
\* in flight is the one request of a task inside, and so at most CONCURRENCY
\* requests are in flight, whatever the order in which the tasks run and the
\* requests come back
C21_SemaphoreBound ==
    program = "download_cwbb_fast" =>
        /\ Cardinality(Inside) <= CONCURRENCY
        /\ semaphore = CONCURRENCY - Cardinality(Inside)
        /\ Cardinality(InFlight) <= CONCURRENCY
        /\ \A r \in InFlight :
              \E t \in Inside : tasks[t].m.slug = r[1] /\ tasks[t].oidx = r[2]
        /\ \A t \in Inside :
              Cardinality({r \in InFlight : r[1] = tasks[t].m.slug}) = 1
        /\ \A t \in DOMAIN tasks :
              tasks[t].st = "waiting" => Cardinality(Inside) = CONCURRENCY

\* the semaphore is full, one task on its second request, and a task of the
\* batch waits in line
C21_Witness ==
    /\ program = "download_cwbb_fast"
    /\ dl_pc = "gather"
    /\ Cardinality(Inside) = CONCURRENCY
    /\ Cardinality(InFlight) = CONCURRENCY
    /\ waiters # <<>>
    /\ \E t \in Inside : tasks[t].oidx = 1

\* a request that failed left an empty history in the record of its market,
\* and no market has two records of this run
C22_FailedSideIsEmpty ==
    program = "download_cwbb_fast" =>
        /\ dl_pc # "crashed"
        /\ \A k \in 1..Len(WrittenThisRun) :
              LET r == WrittenThisRun[k] IN
              /\ Cardinality(RecordsWithSlug(WrittenThisRun, r.slug)) = 1
              /\ \A o \in {0, 1} :
                    LET h == IF Tag(o, r.winner_idx) = "winner"
                             THEN r.winner_history ELSE r.loser_history
                    IN  /\ <<r.slug, o>> \in DOMAIN served
                        /\ served[<<r.slug, o>>] = "timeout" => h = <<>>
                        /\ served[<<r.slug, o>>] = "ok" => h # <<>>

\* a run of download_cwbb_fast is under way
C22_Running ==
    program = "download_cwbb_fast" /\ dl_pc \notin {"off", "done"}

\* the run is over: every market that was left to download has exactly one
\* record of this run in the output file, and its slug is in done_slugs and
\* in the progress file
C22_AllRecorded ==
    /\ program = "download_cwbb_fast"
    /\ dl_pc = "done"
    /\ out_buf = <<>>
    /\ \A j \in 1..Len(dl_markets) :
          /\ Cardinality(RecordsWithSlug(WrittenThisRun, dl_markets[j].slug)) = 1
          /\ dl_markets[j].slug \in done_slugs
          /\ dl_markets[j].slug \in progress_file.done
    /\ Len(WrittenThisRun) = Len(dl_markets)

C29_ProgressAfterFlush ==
    /\ progress_file.state = "ok" => progress_file.done \subseteq DiskSlugs
    /\ dl_pc \notin {"off", "killed", "crashed"} =>
          /\ progress_file.state = "ok" =>
                \A s \in progress_file.done :
                    \/ s \in loaded_done
                    \/ \E k \in (out_start + 1)..Len(out_file) : out_file[k].slug = s
          /\ loaded_done \subseteq DiskSlugs
          /\ \A r \in DOMAIN served : r[1] \notin loaded_done
          /\ \A j \in 1..Len(meta_file) :
                LET s == meta_file[j].slug IN
                (\A k \in 1..Len(dl_markets) : dl_markets[k].slug # s)
                    <=> s \in loaded_done

\* a second run, of download_cwbb, has finished after the first was killed:
\* it skipped the slugs it loaded, it requested others, and the output file
\* holds two records of a market the first run had written but not saved
C29_Witness ==
    /\ runs = 2
    /\ program = "download_cwbb"
    /\ dl_pc = "done"
    /\ loaded_done # {}
    /\ DOMAIN served # {}
    /\ Len(out_file) > Cardinality(DiskSlugs)

----------------------------------------------------------------------------
(* The scraper: what the property is stated in *)

\* the records of the output file that carry the id of the k-th match to fetch
RecordsOfMatch(k) ==
    {j \in 1..Len(dota_file) :
        /\ "match_id" \in DOMAIN dota_file[j]
        /\ dota_file[j].match_id = to_fetch[k].match_id}

\* the k-th match to fetch was fetched: the last of its requests succeeded
Fetched(k) ==
    attempts_log[k] # <<>> /\ Succeeds(attempts_log[k][Len(attempts_log[k])])

\* the k-th match to fetch was given up: NumAttempts requests, all failed
GivenUp(k) ==
    /\ Len(attempts_log[k]) = NumAttempts
    /\ \A a \in 1..NumAttempts : ~Succeeds(attempts_log[k][a])

\* the loop is done with the k-th match to fetch
Settled(k) == k <= dota_i \/ (k = dota_i + 1 /\ dota_pc = "sleep")

\* C30: in scrape_opendota_v2 a match to fetch is requested at most 3 times
\* and never after a request of it succeeded; it has one record in the
\* output file if its last request succeeded and none otherwise, so a match
\* whose id was in the file is never requested; a match the loop is done
\* with was either fetched, its record appended, or given up after 3 failed
\* requests; processed counts the former and errors the latter, and after
\* the loop processed + errors is the number of matches to fetch
C30_ThreeAttempts ==
    dota_pc \in {"attempt", "sleep", "done"} =>
        /\ \A k \in 1..Len(to_fetch) :
              /\ Len(attempts_log[k]) <= 3
              /\ \A a \in 1..(Len(attempts_log[k]) - 1) : ~Succeeds(attempts_log[k][a])
              /\ Cardinality(RecordsOfMatch(k)) = IF Fetched(k) THEN 1 ELSE 0
              /\ Settled(k) => (Fetched(k) \/ GivenUp(k))
              /\ ~Settled(k) => ~Fetched(k) /\ ~GivenUp(k)
              /\ k > dota_i + 1 => attempts_log[k] = <<>>
              /\ to_fetch[k].match_id \notin existing_ids
        /\ \A n \in 1..Len(match_ids) :
              match_ids[n].match_id \in existing_ids =>
                  \A k \in 1..Len(to_fetch) : to_fetch[k] # match_ids[n]
        /\ processed = Cardinality({k \in 1..Len(to_fetch) : Fetched(k)})
        /\ errors = Cardinality({k \in 1..Len(to_fetch) : Settled(k) /\ GivenUp(k)})
        /\ dota_pc = "done" =>
              /\ dota_i = Len(to_fetch)
              /\ processed + errors = Len(to_fetch)

\* the scraper is done: a match was in the file and was not requested, one
\* was fetched at its third request, one was given up after a null
\* radiant_gold_adv made each of its three attempts fail
C30_Witness ==
    /\ dota_pc = "done"
    /\ Len(to_fetch) = 2
    /\ Len(match_ids) = 3
    /\ processed = 1
    /\ errors = 1
    /\ \E k \in 1..2 : attempts_log[k] = <<"error", "error", "gold">>
    /\ \E k \in 1..2 : attempts_log[k] = <<"null_gold", "null_gold", "null_gold">>
====
